---- MODULE Spec2Model ----
(***************************************************************************)
(* A model of the context-tracker plugin's core: the change extractor      *)
(* (core/session_analyzer.py), the topic classifier                        *)
(* (core/topic_detector.py), the transcript-directory path reconstruction  *)
(* (hooks/stop.py) and the knowledge merger (core/wiki_merger.py).         *)
(*                                                                         *)
(* Each component has its own specification (SpecExtract, SpecTopic,       *)
(* SpecPath, SpecMerge, SpecRotate); a specification leaves the variables  *)
(* of the other components at their idle values.                           *)
(***************************************************************************)
EXTENDS Integers, Sequences, FiniteSets, TLC

VARIABLES
    \* ---- change extractor (SessionAnalyzer) ----
    transcript_path,   \* input_data.get('transcript_path'): PyNone or a path
    transcript_file,   \* what is on disk at that path: "missing", "unreadable", "readable"
    transcript,        \* the lines of the transcript file, in order
    hook_file_path,    \* input_data['tool_input']['file_path'], PyNone when absent
    disk,              \* the change paths that exist on the filesystem
    changes,           \* what get_changes returned
    extract_pc,        \* "idle" before get_changes ran, "done" after
    \* ---- topic classifier (TopicDetector) ----
    topic_patterns,    \* the configured rules, in declaration (dict) order
    fallback_topic,    \* config fallback_topic
    change_path,       \* the file_path being classified (a character sequence)
    topic,             \* what _match_file_to_topic returned
    topic_pc,          \* "idle" / "done"
    \* ---- path reconstruction (hooks/stop.py) ----
    parts,             \* the dash-delimited tokens of the project directory name
    dirs,              \* the directories that exist on disk (below "/")
    cwd_found,         \* what _find_valid_path_dp returned
    path_pc,           \* "idle" / "done"
    \* ---- knowledge merger (wiki_merger) ----
    wiki,              \* the WikiKnowledge being merged into
    today,             \* datetime.now() as a day number
    last_call,         \* the last merge_session call: the wiki before it, its arguments, its outcome
    entries_added,     \* the recent-work entries the merges prepended, oldest first
    summaries_only,    \* TRUE while every merge so far had a non-empty summary
    wiki0,             \* the knowledge base the first merge started from
    dedup_call,        \* the last direct _deduplicate call: its arguments and outcome
    context_md,        \* context.md: its lines, each ended by a newline
    written,           \* the knowledge base write_wiki was given, if it wrote the file
    parsed_wiki,       \* what parse returned for context_md
    file_pc,           \* "idle" until parse has run, then "parsed"
    mono_cwd,          \* the working directory detect_monorepo is given, as its segments
    repo_files,        \* the marker files and directories on disk
    mono_result,       \* what detect_monorepo returned
    examined,          \* the directories detect_monorepo checked, in order
    mono_pc,           \* "idle" until detect_monorepo has run, then "done"
    \* ---- the cache of detect_monorepo (functools.lru_cache) ----
    cache_fs,          \* the marker files and directories on disk
    lru,               \* the cache: its entries, least recently used first
    cache_calls,       \* the detect_monorepo calls of this process, in order
    \* ---- the stop hook's main ----
    hook_run,          \* what this run meets: its input and the steps that fail
    hook_pc,           \* where main is
    pending,           \* the exception on its way to main's handler, "" when none
    stdout,            \* what main has printed to standard output
    exit_status,       \* the process's exit status, -1 while it runs
    logs_written,      \* the session logs this run has written
    \* ---- history/ (MarkdownWriter.write_session_log) ----
    history_dir,       \* the files of history/: name -> content
    clock,             \* datetime.now(), in minutes
    sessions,          \* the sessions logged so far: file name and content
    \* ---- session context, path classification ----
    context_call,      \* the last extract_session_context call and its outcome
    classify_call,     \* the last classify / is_excluded call and its outcome
    \* ---- legacy cleanup (cleanup_old_topic_files) ----
    dir_exists,        \* whether the context directory exists
    dir_files,         \* the files in and below the context directory
    cleanup_log,       \* the cleanup calls so far: what each found and deleted
    \* ---- monorepo confirmation ----
    confirmed_projects,  \* config['monorepo_confirmed_projects']
    config_file,       \* the roots saved in config.json
    confirm_log        \* the prompt_monorepo_confirmation calls so far

vars == << transcript_path, transcript_file, transcript, hook_file_path, disk,
           changes, extract_pc,
           topic_patterns, fallback_topic, change_path, topic, topic_pc,
           parts, dirs, cwd_found, path_pc,
           wiki, today, last_call, entries_added, summaries_only, wiki0, dedup_call,
           context_md, written, parsed_wiki, file_pc,
           mono_cwd, repo_files, mono_result, examined, mono_pc,
           cache_fs, lru, cache_calls,
           hook_run, hook_pc, pending, stdout, exit_status, logs_written,
           history_dir, clock, sessions, context_call, classify_call,
           dir_exists, dir_files, cleanup_log,
           confirmed_projects, config_file, confirm_log >>

extract_vars == << transcript_path, transcript_file, transcript, hook_file_path,
                   disk, changes, extract_pc >>
topic_vars == << topic_patterns, fallback_topic, change_path, topic, topic_pc >>
path_vars == << parts, dirs, cwd_found, path_pc >>
merge_vars == << wiki, today, last_call, entries_added, summaries_only, wiki0,
                dedup_call >>
file_vars == << context_md, written, parsed_wiki, file_pc >>
mono_vars == << mono_cwd, repo_files, mono_result, examined, mono_pc >>
cache_vars == << cache_fs, lru, cache_calls >>
hook_vars == << hook_run, hook_pc, pending, stdout, exit_status, logs_written >>
log_vars == << history_dir, clock, sessions >>
call_vars == << context_call, classify_call >>
clean_vars == << dir_exists, dir_files, cleanup_log >>
confirm_vars == << confirmed_projects, config_file, confirm_log >>

\* The variables of the components of the first and of the second half.
core_vars == << extract_vars, topic_vars, path_vars, merge_vars, file_vars, mono_vars >>
hook_side_vars == << cache_vars, hook_vars, log_vars, call_vars, clean_vars, confirm_vars >>

\* Python's None, where a string is expected.
PyNone == "<None>"

\* Python truthiness of an optional string: None and '' are falsy.
Truthy(s) == s # PyNone /\ s # ""

RECURSIVE SeqsUpTo(_, _)
\* All sequences over S of length at most n.
SeqsUpTo(S, n) ==
    IF n = 0 THEN { <<>> }
    ELSE LET shorter == SeqsUpTo(S, n - 1)
         IN  shorter \cup { Append(q, x) : q \in shorter, x \in S }

(***************************************************************************)
(* Change extractor: core/session_analyzer.py                              *)
(***************************************************************************)

\* The longest transcript the model writes.
MaxLog == 3

FILE_MODIFICATION_TOOLS == { "Edit", "Write", "MultiEdit", "NotebookEdit" }

\* A JSON value of a tool's input.  type "missing": the key is absent; "none":
\* null; "number": the number n; "list": a list of n elements, none of them a
\* string; "str": the words joined by single spaces.
Missing == [ type |-> "missing", words |-> <<>>, n |-> 0 ]
Null == [ type |-> "none", words |-> <<>>, n |-> 0 ]
Number(n) == [ type |-> "number", words |-> <<>>, n |-> n ]
ListOf(n) == [ type |-> "list", words |-> <<>>, n |-> n ]
Str(words) == [ type |-> "str", words |-> words, n |-> 0 ]

\* The keys of a tool's input that the descriptions read.
Payload(content, old_string, new_string, edits) ==
    [ content |-> content, old_string |-> old_string, new_string |-> new_string,
      edits |-> edits ]

NoPayload == Payload(Missing, Missing, Missing, Missing)

\* One item of message.content[]: its 'type', 'name', and its 'input' (null, or
\* an object whose 'file_path' is PyNone when the key is missing).
Item(type, name, input_null, fp) ==
    [ type |-> type, name |-> name, input_null |-> input_null, file_path |-> fp,
      payload |-> NoPayload ]

ToolUse(name, fp) == Item("tool_use", name, FALSE, fp)

\* A tool use whose input carries the given keys beside file_path.
ToolUseWith(name, fp, payload) == [ ToolUse(name, fp) EXCEPT !.payload = payload ]

\* One transcript line.  kind "badjson": not valid JSON; "nonobject": valid JSON
\* that is not an object (a list, a number, null); "nullmessage": an object whose
\* 'message' is null; "event": an object with message.content = items.
Line(kind, items) == [ kind |-> kind, items |-> items ]

Event(items) == Line("event", items)

\* The lines the model writes into transcripts.
Lines ==
    { Line("badjson", <<>>), Line("nonobject", <<>>), Line("nullmessage", <<>>),
      Event(<< ToolUse("Edit", "a.py") >>),
      Event(<< ToolUse("Write", "a.py") >>),
      Event(<< ToolUse("Write", "b.py") >>),
      Event(<< ToolUse("MultiEdit", "b.py") >>),
      Event(<< ToolUse("NotebookEdit", "a.py") >>),
      Event(<< ToolUse("Read", "a.py") >>),
      Event(<< Item("text", PyNone, FALSE, PyNone) >>),
      Event(<< Item("tool_use", "Edit", TRUE, PyNone) >>),
      Event(<< ToolUse("Edit", "") >>),
      Event(<< ToolUse("Edit", "a.py"), ToolUse("Write", "b.py") >>),
      Event(<< ToolUseWith("Write", "b.py", Payload(Null, Missing, Missing, Missing)) >>),
      Event(<< ToolUseWith("Write", "r.md", Payload(Null, Missing, Missing, Missing)) >>),
      Event(<< ToolUseWith("Write", "a.py",
                 Payload(Str(<< "class", "Foo", "(" >>), Missing, Missing, Missing)) >>),
      Event(<< ToolUseWith("Edit", "a.py",
                 Payload(Missing, Str(<< "bar" >>), Str(<< "def", "bar", "(" >>), Missing)) >>),
      Event(<< ToolUseWith("Edit", "b.py",
                 Payload(Missing, ListOf(1), ListOf(1), Missing)) >>),
      Event(<< ToolUseWith("MultiEdit", "b.py",
                 Payload(Missing, Missing, Missing, Number(5))) >>),
      Event(<< ToolUseWith("MultiEdit", "a.py",
                 Payload(Missing, Missing, Missing, ListOf(2))) >>) }

\* A result that is either a value or a raised exception.
Ok(v) == [ raised |-> FALSE, value |-> v ]
Raised == [ raised |-> TRUE, value |-> <<>> ]

\* The tool_use items of one event line, as _parse_transcript appends them.
LineToolUses(items) == SelectSeq(items, LAMBDA it : it.type = "tool_use")

RECURSIVE ParseLines(_, _, _)
\* The loop of _parse_transcript over lines[i..]: a JSONDecodeError skips the
\* line; entry.get / message.get on a non-object raises AttributeError, which
\* the loop does not catch.
ParseLines(lines, i, tool_uses) ==
    IF i > Len(lines) THEN Ok(tool_uses)
    ELSE LET l == lines[i] IN
         CASE l.kind = "badjson" -> ParseLines(lines, i + 1, tool_uses)
           [] l.kind \in { "nonobject", "nullmessage" } -> Raised
           [] OTHER -> ParseLines(lines, i + 1, tool_uses \o LineToolUses(l.items))

\* _parse_transcript: open() failing (IOError/OSError) is caught and logged, and
\* the tool uses collected so far (none) are returned.
_parse_transcript(file, lines) ==
    IF file = "readable" THEN ParseLines(lines, 1, <<>>) ELSE Ok(<<>>)

FileChange(fp, action, description) ==
    [ file_path |-> fp, action |-> action, description |-> description ]

\* tool_input.get(key, default).
Get(value, default) == IF value.type = "missing" THEN default ELSE value

\* Python truthiness of a JSON value.
PyTruthy(v) ==
    CASE v.type = "none" -> FALSE
      [] v.type = "number" -> v.n # 0
      [] v.type = "list" -> v.n > 0
      [] OTHER -> v.words # <<>>

\* The number of characters of a word of the model.
CharLen(w) ==
    CASE w = "(" -> 1
      [] w \in { "def", "Foo", "bar", "fix", "bug" } -> 3
      [] w = "class" -> 5
      [] OTHER -> 6    \* "import"

RECURSIVE CharsOf(_)
\* len() of the words joined by single spaces.
CharsOf(words) ==
    IF words = <<>> THEN 0
    ELSE IF Len(words) = 1 THEN CharLen(words[1])
    ELSE CharLen(Head(words)) + 1 + CharsOf(Tail(words))

\* len(v) of a list or a string; on None or a number it raises TypeError.
PyLen(v) == IF v.type = "list" THEN v.n ELSE CharsOf(v.words)

NotSized(v) == v.type \in { "none", "number" }

\* 'keyword ' in v, for a string or a list; on None or a number it raises
\* TypeError.
In(keyword, v) ==
    /\ v.type = "str"
    /\ \E i \in 1..(Len(v.words) - 1) : v.words[i] = keyword

\* _extract_pattern(text, r'keyword\s+(\w+)'): the word after the first keyword
\* that a word follows, '' when there is none.
_extract_pattern(text, keyword) ==
    LET at == { i \in 1..(Len(text.words) - 1) :
                  text.words[i] = keyword /\ text.words[i + 1] # "(" }
    IN  IF at = {} THEN ""
        ELSE text.words[(CHOOSE i \in at : \A j \in at : i <= j) + 1]

\* What the name of a file tells _describe_new_file, "" when nothing.
NameKind(file_path) ==
    CASE file_path = "r.md" -> "Added documentation"
      [] OTHER -> ""

_describe_new_file(file_path, tool_input) ==
    LET content == Get(tool_input.content, Str(<<>>))
        class == _extract_pattern(content, "class")
        def == _extract_pattern(content, "def")
    IN  IF NameKind(file_path) # "" THEN Ok(<< NameKind(file_path) >>)
        ELSE IF NotSized(content) THEN Raised    \* 'class ' in None: TypeError
        ELSE IF In("class", content) /\ class # ""
        THEN Ok(<< "Added", class, "class" >>)
        ELSE IF In("def", content) /\ def # ""
        THEN Ok(<< "Added", def, "function" >>)
        ELSE Ok(<< "Created new file" >>)

_describe_edit(file_path, tool_input) ==
    LET old_text == Get(tool_input.old_string, Str(<<>>))
        new_text == Get(tool_input.new_string, Str(<<>>))
        Adds(keyword) == In(keyword, new_text) /\ ~In(keyword, old_text)
    IN  IF ~PyTruthy(old_text) \/ ~PyTruthy(new_text) THEN Ok(<< "Updated file" >>)
        \* 'def ' in 5, or at the latest len(5): TypeError
        ELSE IF NotSized(new_text) \/ NotSized(old_text) THEN Raised
        ELSE IF Adds("def") /\ _extract_pattern(new_text, "def") # ""
        THEN Ok(<< "Added", _extract_pattern(new_text, "def"), "function" >>)
        ELSE IF Adds("class") /\ _extract_pattern(new_text, "class") # ""
        THEN Ok(<< "Added", _extract_pattern(new_text, "class"), "class" >>)
        ELSE IF Adds("import") THEN Ok(<< "Added imports" >>)
        ELSE IF 10 * PyLen(new_text) > 15 * PyLen(old_text)
        THEN Ok(<< "Extended functionality" >>)
        ELSE IF 10 * PyLen(new_text) < 7 * PyLen(old_text)
        THEN Ok(<< "Simplified code" >>)
        ELSE IF new_text.type = "list" THEN Raised    \* [..].lower(): AttributeError
        ELSE IF \E i \in 1..Len(new_text.words) : new_text.words[i] \in { "fix", "bug" }
        THEN Ok(<< "Fixed bug" >>)
        ELSE Ok(<< "Updated logic" >>)

_generate_change_description(tool_name, file_path, tool_input) ==
    CASE tool_name = "Write" -> _describe_new_file(file_path, tool_input)
      [] tool_name = "Edit" -> _describe_edit(file_path, tool_input)
      [] tool_name = "MultiEdit" ->
           LET edits == Get(tool_input.edits, ListOf(0)) IN
           IF NotSized(edits) THEN Raised    \* len(None): TypeError
           ELSE Ok(<< "Multiple updates", ToString(PyLen(edits)), "changes" >>)
      [] OTHER -> Ok(<< "Modified" >>)

RECURSIVE ExtractLoop(_, _, _, _, _)
\* The loop of _extract_changes_from_tools over tool_uses[i..].
ExtractLoop(tool_uses, i, seen_files, acc, exists) ==
    IF i > Len(tool_uses) THEN Ok(acc)
    ELSE LET tool == tool_uses[i] IN
         IF tool.name \notin FILE_MODIFICATION_TOOLS
         THEN ExtractLoop(tool_uses, i + 1, seen_files, acc, exists)
         ELSE IF tool.input_null
         THEN Raised    \* None.get('file_path'): AttributeError
         ELSE IF ~Truthy(tool.file_path)
         THEN ExtractLoop(tool_uses, i + 1, seen_files, acc, exists)
         ELSE IF tool.file_path \in seen_files
         THEN ExtractLoop(tool_uses, i + 1, seen_files, acc, exists)
         ELSE LET action == IF tool.name = "Write" /\ tool.file_path \notin exists
                            THEN "created" ELSE "modified"
                  description == _generate_change_description(
                                     tool.name, tool.file_path, tool.payload)
              IN  IF description.raised THEN Raised
                  ELSE ExtractLoop(tool_uses, i + 1, seen_files \cup { tool.file_path },
                                   Append(acc, FileChange(tool.file_path, action,
                                                          description.value)),
                                   exists)

_extract_changes_from_tools(tool_uses, exists) ==
    ExtractLoop(tool_uses, 1, {}, <<>>, exists)

\* _extract_changes_from_input: the single record of tool_input.file_path.
_extract_changes_from_input(fp) ==
    IF Truthy(fp) THEN << FileChange(fp, "modified", << "Modified" >>) >> ELSE <<>>

\* get_changes: the transcript when its path is given and exists, the hook input
\* when it is not or when parsing or extraction raised.
get_changes(tp, file, lines, fp, exists) ==
    IF Truthy(tp) /\ file # "missing"
    THEN LET parsed == _parse_transcript(file, lines) IN
         IF parsed.raised THEN _extract_changes_from_input(fp)
         ELSE LET got == _extract_changes_from_tools(parsed.value, exists) IN
              IF got.raised THEN _extract_changes_from_input(fp) ELSE got.value
    ELSE _extract_changes_from_input(fp)

ExtractIdle ==
    /\ transcript_path = PyNone
    /\ transcript_file = "missing"
    /\ transcript = <<>>
    /\ hook_file_path = PyNone
    /\ disk = {}
    /\ changes = <<>>
    /\ extract_pc = "idle"

\* The hook input and the filesystem a session can end with: no transcript path,
\* a path to no file, to a file that cannot be opened, or to a readable (still
\* empty) transcript.
ExtractInit ==
    /\ \E given \in { << PyNone, "missing" >>, << "", "missing" >>,
                      << "/t.jsonl", "missing" >>, << "/t.jsonl", "unreadable" >>,
                      << "/t.jsonl", "readable" >> } :
          /\ transcript_path = given[1]
          /\ transcript_file = given[2]
    /\ transcript = <<>>
    /\ hook_file_path \in { PyNone, "z.py", "b.py" }
    /\ disk \in { {}, { "a.py" } }
    /\ changes = <<>>
    /\ extract_pc = "idle"

\* The assistant appends one line to the session transcript.
WriteLine(l) ==
    /\ extract_pc = "idle"
    /\ transcript_file = "readable"
    /\ Len(transcript) < MaxLog
    /\ transcript' = Append(transcript, l)
    /\ UNCHANGED << transcript_path, transcript_file, hook_file_path, disk,
                    changes, extract_pc >>
    /\ UNCHANGED << topic_vars, path_vars, merge_vars, file_vars, mono_vars, hook_side_vars >>

\* SessionAnalyzer.get_changes() at the end of the session.
GetChanges ==
    /\ extract_pc = "idle"
    /\ changes' = get_changes(transcript_path, transcript_file, transcript,
                              hook_file_path, disk)
    /\ extract_pc' = "done"
    /\ UNCHANGED << transcript_path, transcript_file, transcript, hook_file_path,
                    disk >>
    /\ UNCHANGED << topic_vars, path_vars, merge_vars, file_vars, mono_vars, hook_side_vars >>

(***************************************************************************)
(* Topic classifier: core/topic_detector.py                                *)
(***************************************************************************)

\* The most rules a configuration of the model declares.
MaxRules == 3

\* Strings that fnmatch reads are sequences of one-character strings.
TestsFeeTestPy ==      \* tests/fee_test.py
    << "t", "e", "s", "t", "s", "/", "f", "e", "e", "_", "t", "e", "s", "t", ".", "p", "y" >>
AbsTestsFeeTestPy ==   \* /p/tests/fee_test.py
    << "/", "p", "/" >> \o TestsFeeTestPy
SrcMainPy ==           \* src/main.py
    << "s", "r", "c", "/", "m", "a", "i", "n", ".", "p", "y" >>
PatTests ==            \* **/tests/**
    << "*", "*", "/", "t", "e", "s", "t", "s", "/", "*", "*" >>
PatFeePy ==            \* **/fee*.py
    << "*", "*", "/", "f", "e", "e", "*", ".", "p", "y" >>
PatMd ==               \* *.md
    << "*", ".", "m", "d" >>
PatPy ==               \* *.py
    << "*", ".", "p", "y" >>

RECURSIVE StarClosure(_, _)
\* The pattern positions reachable from P without reading a character: a '*'
\* matches the empty string.
StarClosure(pat, P) ==
    LET more == P \cup { i + 1 : i \in { j \in P : j <= Len(pat) /\ pat[j] = "*" } }
    IN  IF more = P THEN P ELSE StarClosure(pat, more)

\* The positions after reading character c: '*' stays, '?' and an equal
\* character advance.
GlobStep(pat, P, c) ==
    StarClosure(pat,
        { i \in P : i <= Len(pat) /\ pat[i] = "*" }
        \cup { i + 1 : i \in { j \in P : j <= Len(pat) /\ pat[j] # "*"
                                          /\ pat[j] \in { "?", c } } })

RECURSIVE GlobRun(_, _, _, _)
GlobRun(pat, P, s, k) ==
    IF k > Len(s) THEN P ELSE GlobRun(pat, GlobStep(pat, P, s[k]), s, k + 1)

\* fnmatch.fnmatch(name, pat) on POSIX for patterns without '[': the whole name
\* must match; '*' matches any run of characters, '/' included, so '**' is '*'.
fnmatch(name, pat) ==
    (Len(pat) + 1) \in GlobRun(pat, StarClosure(pat, { 1 }), name, 1)

\* topic_config.get('priority', 5): the priority is <<p>>, or <<>> when the
\* key is missing.
DEFAULT_PRIORITY == 5
PriorityOf(rule) ==
    IF rule.priority = <<>> THEN DEFAULT_PRIORITY ELSE rule.priority[1]

\* The rule matches when one of its patterns does (the inner loop breaks at
\* the first).
RuleMatches(rule, path) ==
    \E k \in 1..Len(rule.file_patterns) : fnmatch(path, rule.file_patterns[k])

INITIAL_BEST_PRIORITY == -1

RECURSIVE MatchLoop(_, _, _, _, _)
\* The loop of _match_file_to_topic over rules[i..].
MatchLoop(rules, i, path, best_match, best_priority) ==
    IF i > Len(rules) THEN best_match
    ELSE IF RuleMatches(rules[i], path) /\ PriorityOf(rules[i]) > best_priority
         THEN MatchLoop(rules, i + 1, path, rules[i].name, PriorityOf(rules[i]))
         ELSE MatchLoop(rules, i + 1, path, best_match, best_priority)

\* _match_file_to_topic: `best_match if best_match else self.fallback_topic`.
_match_file_to_topic(rules, fallback, path) ==
    LET best_match == MatchLoop(rules, 1, path, PyNone, INITIAL_BEST_PRIORITY)
    IN  IF Truthy(best_match) THEN best_match ELSE fallback

TopicRule(name, pats, prio) ==
    [ name |-> name, file_patterns |-> pats, priority |-> prio ]

\* The rules of the specification's scenario (and of the test fixture's first
\* two topics).
SampleRules ==
    << TopicRule("testing", << PatTests >>, << 10 >>),
       TopicRule("fees", << PatFeePy >>, << 8 >>) >>

TopicNames == { "testing", "fees", "docs", "" }
PatternLists == { << PatTests >>, << PatMd, PatPy >> }
Priorities == { <<>>, << -1 >>, << 0 >> }
ChangePaths == { TestsFeeTestPy, AbsTestsFeeTestPy, SrcMainPy }

TopicIdle ==
    /\ topic_patterns = <<>>
    /\ fallback_topic = "general-changes"
    /\ change_path = <<>>
    /\ topic = PyNone
    /\ topic_pc = "idle"

TopicInit ==
    /\ topic_patterns \in { <<>>, SampleRules }
    /\ fallback_topic = "general-changes"
    /\ change_path = <<>>
    /\ topic = PyNone
    /\ topic_pc = "idle"

\* The configuration declares one more topic (a JSON object's keys are
\* distinct and keep their order).
DeclareRule(r) ==
    /\ topic_pc = "idle"
    /\ Len(topic_patterns) < MaxRules
    /\ \A k \in 1..Len(topic_patterns) : topic_patterns[k].name # r.name
    /\ topic_patterns' = Append(topic_patterns, r)
    /\ UNCHANGED << fallback_topic, change_path, topic, topic_pc >>
    /\ UNCHANGED << extract_vars, path_vars, merge_vars, file_vars, mono_vars, hook_side_vars >>

\* TopicDetector._match_file_to_topic(path) for one change.
Classify(path) ==
    /\ topic_pc = "idle"
    /\ change_path' = path
    /\ topic' = _match_file_to_topic(topic_patterns, fallback_topic, path)
    /\ topic_pc' = "done"
    /\ UNCHANGED << topic_patterns, fallback_topic >>
    /\ UNCHANGED << extract_vars, path_vars, merge_vars, file_vars, mono_vars, hook_side_vars >>

(***************************************************************************)
(* Path reconstruction: hooks/stop.py                                      *)
(***************************************************************************)

\* The most tokens a project directory name of the model splits into, and the
\* most directories the model creates on disk.
MaxParts == 4
MaxDirs == 4

Tokens == { "a", "b" }

\* A path is the sequence of its segments below "/", and a segment the
\* sequence of the tokens that its dashes join: "/a-b/c" is << <<a, b>>, <<c>> >>.
\* Tokens hold neither '-' nor '/', so two paths are the same string exactly
\* when they are the same sequence of segments.
Slice(seq, from, to) == [ k \in 1..(to - from) |-> seq[from + k] ]

\* '-'.join(parts[start:end])
Segment(ps, start, end) == Slice(ps, start, end)

\* Path(candidate).exists(): "/" itself always exists.
PathExists(path, on_disk) == path = <<>> \/ path \in on_disk

NotFound == [ found |-> FALSE, path |-> <<>> ]
Found(path) == [ found |-> TRUE, path |-> path ]

\* The body of the outer loop for one `end`: the first `start` (ascending) with
\* memo[start] set whose candidate exists gives memo[end]; memo is indexed from
\* 1 here, so memo[start + 1] is the code's memo[start].
MemoAt(ps, memo, end, on_disk) ==
    LET Candidate(start) == Append(memo[start + 1].path, Segment(ps, start, end))
        feasible == { start \in 0..(end - 1) :
                        /\ memo[start + 1].found
                        /\ PathExists(Candidate(start), on_disk) }
    IN  IF feasible = {} THEN NotFound
        ELSE Found(Candidate(CHOOSE st \in feasible : \A o \in feasible : st <= o))

RECURSIVE MemoLoop(_, _, _, _)
\* The outer loop of _find_valid_path_dp from `end` on.
MemoLoop(ps, memo, end, on_disk) ==
    IF end > Len(ps) THEN memo
    ELSE MemoLoop(ps, Append(memo, MemoAt(ps, memo, end, on_disk)), end + 1, on_disk)

\* '/' + '/'.join(parts)
JoinAll(ps) == [ k \in 1..Len(ps) |-> << ps[k] >> ]

\* _find_valid_path_dp(parts) for a non-empty parts.
_find_valid_path_dp(ps, on_disk) ==
    LET memo == MemoLoop(ps, << Found(<<>>) >>, 1, on_disk)
    IN  IF memo[Len(ps) + 1].found THEN memo[Len(ps) + 1].path ELSE JoinAll(ps)

RECURSIVE Groupings(_)
\* Every way of grouping contiguous tokens of ps into dash-joined segments.
Groupings(ps) ==
    IF ps = <<>> THEN { <<>> }
    ELSE UNION { { Append(g, Segment(ps, cut, Len(ps))) :
                     g \in Groupings(Slice(ps, 0, cut)) } : cut \in 0..(Len(ps) - 1) }

PathIdle ==
    /\ parts = <<>>
    /\ dirs = {}
    /\ cwd_found = <<>>
    /\ path_pc = "idle"

\* A transcript directory name "-t1-t2-...", on a disk with nothing below "/".
PathInit ==
    /\ parts \in (SeqsUpTo(Tokens, MaxParts) \ { <<>> })
    /\ dirs = {}
    /\ cwd_found = <<>>
    /\ path_pc = "idle"

\* A directory is created under "/" or under an existing directory.  Only
\* directories whose name regroups a prefix of parts can be looked at by the
\* reconstruction, so only those are created.
Mkdir(parent, seg) ==
    /\ path_pc = "idle"
    /\ Cardinality(dirs) < MaxDirs
    /\ PathExists(parent, dirs)
    /\ Append(parent, seg) \notin dirs
    /\ dirs' = dirs \cup { Append(parent, seg) }
    /\ UNCHANGED << parts, cwd_found, path_pc >>
    /\ UNCHANGED << extract_vars, topic_vars, merge_vars, file_vars, mono_vars, hook_side_vars >>

PrefixGroupings(ps) == UNION { Groupings(Slice(ps, 0, n)) : n \in 1..Len(ps) }

\* extract_cwd_from_transcript -> _find_valid_path_dp(parts)
FindValidPath ==
    /\ path_pc = "idle"
    /\ cwd_found' = _find_valid_path_dp(parts, dirs)
    /\ path_pc' = "done"
    /\ UNCHANGED << parts, dirs >>
    /\ UNCHANGED << extract_vars, topic_vars, merge_vars, file_vars, mono_vars, hook_side_vars >>

(***************************************************************************)
(* Knowledge merger: core/wiki_merger.py                                   *)
(***************************************************************************)

\* The most items a session list of the model holds, the most recent-work
\* entries the merges of one run add, and the last day of the model's calendar.
MaxNew == 2
MaxRotations == 6
MaxDay == 2

\* The most recent-work entries the merges of SpecMerge add.
MaxMergeEntries == 2

\* str.lower() on the model's alphabet.
LowerChar(c) ==
    CASE c = "A" -> "a" [] c = "B" -> "b" [] c = "C" -> "c" [] OTHER -> c

Lower(str) == [ k \in 1..Len(str) |-> LowerChar(str[k]) ]

RECURSIVE CommonRun(_, _, _, _, _, _)
\* The length of the longest common run a[i..] = b[j..] inside a[..ahi], b[..bhi]
\* (indices from 1, bounds inclusive).
CommonRun(a, b, i, j, ahi, bhi) ==
    IF i > ahi \/ j > bhi \/ a[i] # b[j] THEN 0
    ELSE 1 + CommonRun(a, b, i + 1, j + 1, ahi, bhi)

\* With the longest block's size known: of the blocks of that size the one
\* starting earliest in a, and of those the one starting earliest in b.
EarliestBlock(a, b, alo, ahi, blo, bhi, best) ==
    LET startsA == { i \in alo..ahi :
                       \E j \in blo..bhi : CommonRun(a, b, i, j, ahi, bhi) = best }
        bi == CHOOSE i \in startsA : \A o \in startsA : i <= o
        startsB == { j \in blo..bhi : CommonRun(a, b, bi, j, ahi, bhi) = best }
    IN  [ i |-> bi, j |-> CHOOSE j \in startsB : \A o \in startsB : j <= o,
          size |-> best ]

\* SequenceMatcher.find_longest_match without junk, on a[alo..ahi] and
\* b[blo..bhi]: (alo, blo, 0) when no character is shared.
find_longest_match(a, b, alo, ahi, blo, bhi) ==
    LET runs == { CommonRun(a, b, p[1], p[2], ahi, bhi) : p \in (alo..ahi) \X (blo..bhi) }
        best == CHOOSE k \in runs : \A m \in runs : m <= k
    IN  IF best = 0 THEN [ i |-> alo, j |-> blo, size |-> 0 ]
        ELSE EarliestBlock(a, b, alo, ahi, blo, bhi, best)

RECURSIVE MatchedChars(_, _, _, _, _, _)
\* The total size of SequenceMatcher.get_matching_blocks: the longest block,
\* then the same to its left and to its right.
MatchedChars(a, b, alo, ahi, blo, bhi) ==
    IF alo > ahi \/ blo > bhi THEN 0
    ELSE LET m == find_longest_match(a, b, alo, ahi, blo, bhi) IN
         IF m.size = 0 THEN 0
         ELSE m.size
              + MatchedChars(a, b, alo, m.i - 1, blo, m.j - 1)
              + MatchedChars(a, b, m.i + m.size, ahi, m.j + m.size, bhi)

\* SequenceMatcher.ratio() as the fraction num/den: 2.0 * matches / length, and
\* 1.0 when both strings are empty.
Ratio(a, b) ==
    IF Len(a) + Len(b) = 0 THEN [ num |-> 1, den |-> 1 ]
    ELSE [ num |-> 2 * MatchedChars(a, b, 1, Len(a), 1, Len(b)),
           den |-> Len(a) + Len(b) ]

\* _similarity(a, b) = SequenceMatcher(None, a.lower(), b.lower()).ratio()
_similarity(a, b) == Ratio(Lower(a), Lower(b))

\* threshold=0.8 in merge_session, as the fraction 8/10.
THRESHOLD_NUM == 8
THRESHOLD_DEN == 10

\* The strings of decisions and problems: ab/ABC have ratio 4/5 once lowered,
\* ABC/abcd 6/7, and ab/abcd 4/6.
StrAb == << "a", "b" >>
StrABC == << "A", "B", "C" >>
StrAbcd == << "a", "b", "c", "d" >>
Strs == { <<>>, StrAb, StrABC, StrAbcd }

\* A ratio or a threshold as the fraction num/den, den > 0.
Fraction(num, den) == [ num |-> num, den |-> den ]

\* threshold=0.8, as merge_session passes it.
MERGE_THRESHOLD == Fraction(THRESHOLD_NUM, THRESHOLD_DEN)

\* The comparison written with > in place of >=: a ratio of exactly 0.8 then
\* counts as distinct.
AboveThreshold(r, threshold) ==
    r.num * threshold.den > threshold.num * r.den

\* ratio >= threshold
AtLeastThreshold(r, threshold) ==
    r.num * threshold.den >= threshold.num * r.den

RECURSIVE SimilarityTable(_)
\* _similarity tabulated over the pairs of S.
SimilarityTable(S) ==
    IF S = {} THEN << >>
    ELSE LET p == CHOOSE q \in S : TRUE
         IN  (p :> _similarity(p[1], p[2])) @@ SimilarityTable(S \ { p })

\* The ratios of the model's strings, computed once.
Similarities == SimilarityTable(Strs \X Strs)

\* _similarity(new_item, existing_item) >= threshold
IsDuplicateOf(new_item, existing_item, threshold) ==
    AtLeastThreshold(Similarities[<< new_item, existing_item >>], threshold)

RECURSIVE DedupLoop(_, _, _, _)
\* The loop of _deduplicate over new_items[i..].
DedupLoop(result, new_items, i, threshold) ==
    IF i > Len(new_items) THEN result
    ELSE LET new_item == new_items[i] IN
         IF new_item = <<>>
         THEN DedupLoop(result, new_items, i + 1, threshold)
         ELSE IF \E k \in 1..Len(result) : IsDuplicateOf(new_item, result[k], threshold)
         THEN DedupLoop(result, new_items, i + 1, threshold)
         ELSE DedupLoop(<< new_item >> \o result, new_items, i + 1, threshold)

RECURSIVE Reversed(_)
Reversed(seq) == IF seq = <<>> THEN <<>> ELSE Append(Reversed(Tail(seq)), Head(seq))

\* The merge without the duplicate test: every non-empty new item is inserted.
PrependAll(existing, new_items, threshold) ==
    Reversed(SelectSeq(new_items, LAMBDA item : item # <<>>))
        \o SelectSeq(existing, LAMBDA item : item # <<>>)

\* _deduplicate(existing, new_items, threshold): no check of the threshold.
_deduplicate(existing, new_items, threshold) ==
    DedupLoop(SelectSeq(existing, LAMBDA item : item # <<>>), new_items, 1, threshold)

\* The rotation truncating at the wrong end (result[-max_size:]): a full list
\* loses the new entry and keeps the oldest.
RotateKeepOldest(recent, new_entry, max_size) ==
    LET result == << new_entry >> \o recent
    IN  IF Len(result) <= max_size THEN result
        ELSE SubSeq(result, Len(result) - max_size + 1, Len(result))

\* The rotation adding the entry at the end of the list instead of the front.
RotateAppended(recent, new_entry, max_size) ==
    LET result == Append(recent, new_entry)
    IN  SubSeq(result, 1, IF Len(result) < max_size THEN Len(result) ELSE max_size)

\* _rotate_recent(recent, new_entry, max_size) for max_size > 0.
_rotate_recent(recent, new_entry, max_size) ==
    LET result == << new_entry >> \o recent
    IN  SubSeq(result, 1, IF Len(result) < max_size THEN Len(result) ELSE max_size)

\* f"[{date_str}] {session.summary}"
Entry(date, summary) == << date, summary >>

\* The merge returning a knowledge base built anew from the merged lists, the
\* other sections left at their defaults.
MergeRebuilt(w, session, max_recent, date) ==
    LET merged == [ architecture |-> "", patterns |-> <<>>, key_symbols |-> <<>>,
                    decisions |-> _deduplicate(w.decisions, session.decisions_made,
                                               MERGE_THRESHOLD),
                    issues |-> _deduplicate(w.issues, session.problems_solved,
                                            MERGE_THRESHOLD),
                    recent_work |-> w.recent_work ]
    IN  IF session.summary = "" THEN [ wiki |-> merged, raised |-> FALSE ]
        ELSE IF max_recent <= 0 THEN [ wiki |-> merged, raised |-> TRUE ]
        ELSE [ wiki |-> [ merged EXCEPT !.recent_work =
                             << Entry(date, session.summary) >> \o w.recent_work ],
               raised |-> FALSE ]

\* merge_session(wiki, session, max_recent): the wiki it leaves behind, and
\* whether it raised.  The lists are assigned before _rotate_recent can raise.
merge_session(w, session, max_recent, date) ==
    LET merged == [ w EXCEPT !.decisions = _deduplicate(w.decisions, session.decisions_made,
                                                            MERGE_THRESHOLD),
                             !.issues = _deduplicate(w.issues, session.problems_solved,
                                                         MERGE_THRESHOLD) ]
    IN  IF session.summary = "" THEN [ wiki |-> merged, raised |-> FALSE ]
        ELSE IF max_recent <= 0 THEN [ wiki |-> merged, raised |-> TRUE ]
        ELSE [ wiki |-> [ merged EXCEPT !.recent_work =
                             _rotate_recent(w.recent_work, Entry(date, session.summary),
                                            max_recent) ],
               raised |-> FALSE ]

WikiKnowledge(architecture, decisions, patterns, key_symbols, issues, recent_work) ==
    [ architecture |-> architecture, decisions |-> decisions, patterns |-> patterns,
      key_symbols |-> key_symbols, issues |-> issues, recent_work |-> recent_work ]

SessionContext(summary, decisions_made, problems_solved) ==
    [ user_goal |-> "", summary |-> summary, decisions_made |-> decisions_made,
      problems_solved |-> problems_solved, future_work |-> <<>> ]

\* max_recent: int = 5
DEFAULT_MAX_RECENT == 5

EmptyWiki == WikiKnowledge("", <<>>, <<>>, <<>>, <<>>, <<>>)
NoCall == [ made |-> FALSE, before |-> EmptyWiki, session |-> SessionContext("", <<>>, <<>>),
            max_recent |-> DEFAULT_MAX_RECENT, date |-> 0, raised |-> FALSE,
            repeat |-> FALSE ]

NoDedup == [ made |-> FALSE, existing |-> <<>>, new_items |-> <<>>,
             threshold |-> MERGE_THRESHOLD, result |-> <<>>, raised |-> FALSE ]

MergeIdle ==
    /\ wiki = EmptyWiki
    /\ today = 1
    /\ last_call = NoCall
    /\ entries_added = <<>>
    /\ summaries_only = TRUE
    /\ wiki0 = EmptyWiki
    /\ dedup_call = NoDedup

\* merge_session(wiki, session, max_recent) on the knowledge base; `limit`
\* caps the entries one run of the model adds.
MergeSession(session, max_recent, limit) ==
    /\ session.summary # "" => Len(entries_added) < limit
    /\ LET out == merge_session(wiki, session, max_recent, today) IN
       /\ wiki' = out.wiki
       /\ last_call' = [ made |-> TRUE, before |-> wiki, session |-> session,
                         max_recent |-> max_recent, date |-> today,
                         raised |-> out.raised,
                         \* the same session as the call before
                         repeat |-> last_call.made /\ last_call.session = session ]
       /\ entries_added' = IF session.summary # "" /\ ~out.raised
                           THEN Append(entries_added, Entry(today, session.summary))
                           ELSE entries_added
    /\ summaries_only' = (summaries_only /\ session.summary # "")
    /\ UNCHANGED << today, wiki0, dedup_call >>
    /\ UNCHANGED << extract_vars, topic_vars, path_vars, file_vars, mono_vars, hook_side_vars >>

\* _deduplicate(existing, new_items, threshold) called with a threshold of the
\* caller's choice; the function has no raise statement.
Deduplicate(existing, new_items, threshold) ==
    /\ dedup_call' = [ made |-> TRUE, existing |-> existing, new_items |-> new_items,
                       threshold |-> threshold,
                       result |-> _deduplicate(existing, new_items, threshold),
                       raised |-> FALSE ]
    /\ UNCHANGED << wiki, today, last_call, entries_added, summaries_only, wiki0 >>
    /\ UNCHANGED << extract_vars, topic_vars, path_vars, file_vars, mono_vars, hook_side_vars >>

\* Midnight passes between two sessions.
NextDay ==
    /\ today < MaxDay
    /\ today' = today + 1
    /\ UNCHANGED << wiki, last_call, entries_added, summaries_only, wiki0, dedup_call >>
    /\ UNCHANGED << extract_vars, topic_vars, path_vars, file_vars, mono_vars, hook_side_vars >>

(***************************************************************************)
(* Knowledge file: core/markdown_writer.py, core/wiki_parser.py            *)
(***************************************************************************)

\* The most items a list of a written knowledge base holds, and the most lines
\* of a hand-written context.md.
MaxWikiItems == 2
MaxFileLines == 4

\* A line of context.md: what it starts with ("# ", "## ", "### ", "- ", "* "
\* or nothing) and the text after it.  A blank line has neither.
MdLine(prefix, text) == [ prefix |-> prefix, text |-> text ]
Blank == MdLine("", "")
Heading2(name) == MdLine("## ", name)
Bullet(item) == MdLine("- ", item)

\* '\n'.join(f"- {d}" for d in items) + '\n', or the placeholder line.
ListBody(items, placeholder) ==
    IF items # <<>> THEN [ k \in 1..Len(items) |-> Bullet(items[k]) ]
    ELSE << MdLine("", placeholder) >>

\* parts.append("\n## Name\n") followed by the section's body; '\n'.join(parts)
\* puts one more newline in front of and behind the header.
ListSection(name, items, placeholder) ==
    << Blank, Blank, Heading2(name), Blank >> \o ListBody(items, placeholder)

\* MarkdownWriter.write_wiki: the text of context.md.  The architecture is a
\* block of lines written as it is; there is no Key Symbols section.
write_wiki(w) ==
    << MdLine("# ", "Project Context"), Blank, Heading2("Architecture"), Blank >>
    \o (IF w.architecture # <<>> THEN w.architecture
        ELSE << MdLine("", "_No architectural notes yet._") >>)
    \o ListSection("Decisions", w.decisions, "_No decisions recorded yet._")
    \o ListSection("Patterns", w.patterns, "_No patterns identified yet._")
    \o ListSection("Issues", w.issues, "_No issues tracked yet._")
    \o ListSection("Recent Work", w.recent_work, "_No recent work yet._")

\* The section names a header text starts with: `## {section_name}[^\n]*`
\* accepts any text after the name.
NamesStarting(text) ==
    IF text = "Decisions Log" THEN { "Decisions" } ELSE { text }

\* ^## {section_name}[^\n]*\n matches this line.
IsHeaderOf(l, section_name) ==
    l.prefix = "## " /\ section_name \in NamesStarting(l.text)

NoSection == [ found |-> FALSE, lines |-> <<>> ]

\* re.search(rf'^## {section_name}[^\n]*\n(.*?)(?=\n## |\Z)'): the first header
\* of the name, and as group 1 the lines after it up to the first "## " line
\* that has a newline of the group's range before it, i.e. from the second
\* line after the header on.
SectionMatch(content, section_name) ==
    LET heads == { i \in 1..Len(content) : IsHeaderOf(content[i], section_name) }
    IN  IF heads = {} THEN NoSection
        ELSE LET h == CHOOSE i \in heads : \A o \in heads : i <= o
                 ends == { j \in (h + 2)..Len(content) : content[j].prefix = "## " }
                 e == IF ends = {} THEN Len(content) + 1
                      ELSE CHOOSE j \in ends : \A o \in ends : j <= o
             IN  [ found |-> TRUE, lines |-> SubSeq(content, h + 1, e - 1) ]

\* str.strip() on the texts of the model.
Strip(text) == IF text = "x " THEN "x" ELSE text

\* _extract_list_items: re.findall(r'^[\-\*]\s+(.+)$') over the section, each
\* item stripped.
_extract_list_items(content, section_name) ==
    LET m == SectionMatch(content, section_name)
        bullets == SelectSeq(m.lines, LAMBDA l : l.prefix \in { "- ", "* " } /\ l.text # "")
    IN  IF ~m.found THEN <<>>
        ELSE [ k \in 1..Len(bullets) |-> Strip(bullets[k].text) ]

RECURSIVE StripBlock(_)
\* group(1).strip() on a block of lines: the blank lines at both ends go.
StripBlock(lines) ==
    IF lines = <<>> THEN <<>>
    ELSE IF Head(lines) = Blank THEN StripBlock(Tail(lines))
    ELSE IF lines[Len(lines)] = Blank THEN StripBlock(SubSeq(lines, 1, Len(lines) - 1))
    ELSE lines

\* parse(content)
parse(content) ==
    LET arch_match == SectionMatch(content, "Architecture")
    IN  [ architecture |-> IF arch_match.found THEN StripBlock(arch_match.lines) ELSE <<>>,
          decisions |-> _extract_list_items(content, "Decisions"),
          patterns |-> _extract_list_items(content, "Patterns"),
          key_symbols |-> _extract_list_items(content, "Key Symbols"),
          issues |-> _extract_list_items(content, "Issues"),
          recent_work |-> _extract_list_items(content, "Recent Work") ]

NotWritten == [ done |-> FALSE, wiki |-> parse(<<>>) ]

FileIdle ==
    /\ context_md = <<>>
    /\ written = NotWritten
    /\ parsed_wiki = parse(<<>>)
    /\ file_pc = "idle"

\* MarkdownWriter.write_wiki(wiki, context_dir) replaces context.md.
WriteWiki(w) ==
    /\ file_pc = "idle"
    /\ ~written.done
    /\ context_md' = write_wiki(w)
    /\ written' = [ done |-> TRUE, wiki |-> w ]
    /\ UNCHANGED << parsed_wiki, file_pc >>
    /\ UNCHANGED << extract_vars, topic_vars, path_vars, merge_vars, mono_vars, hook_side_vars >>

\* Somebody adds a line to a context.md written by hand.
EditFile(l) ==
    /\ file_pc = "idle"
    /\ ~written.done
    /\ Len(context_md) < MaxFileLines
    /\ context_md' = Append(context_md, l)
    /\ UNCHANGED << written, parsed_wiki, file_pc >>
    /\ UNCHANGED << extract_vars, topic_vars, path_vars, merge_vars, mono_vars, hook_side_vars >>

\* wiki_parser.parse(context.md's text)
ParseFile ==
    /\ file_pc = "idle"
    /\ parsed_wiki' = parse(context_md)
    /\ file_pc' = "parsed"
    /\ UNCHANGED << context_md, written >>
    /\ UNCHANGED << extract_vars, topic_vars, path_vars, merge_vars, mono_vars, hook_side_vars >>

(***************************************************************************)
(* Monorepo detection: core/monorepo_detector.py                           *)
(***************************************************************************)

\* The most "src" directories between the workspace and the working directory,
\* and the most marker files and directories on disk.
MaxNesting == 9
MaxMarkers == 2

\* The marker files in the order of the dictionary, with their repo types.
STANDARD_MARKERS ==
    << << "nx.json", "nx" >>, << "turbo.json", "turbo" >>,
       << "lerna.json", "lerna" >>, << "pnpm-workspace.yaml", "pnpm" >> >>

WORKSPACE_DIRS == { "apps", "libs", "packages", "subgraphs" }

MAX_WALK_LEVELS == 10

\* A directory is the sequence of its segments below "/".  A file on disk: the
\* directory it lies in, its name, and what matters of its content
\* ("workspaces" for a package.json with that key, "nested" for a subgraphs/
\* directory with a package.json in a subdirectory).
RepoFile(dir, name, detail) == [ dir |-> dir, name |-> name, detail |-> detail ]

\* (current / name).exists()
FileExists(files, current, name) ==
    \E f \in files : f.dir = current /\ f.name = name

NoWorkspace == [ found |-> FALSE, relative |-> <<>>, name |-> "" ]

\* A variant that names the workspace by the last segment alone.
BuildLeafWorkspace(ps) ==
    [ found |-> TRUE, relative |-> << ps[Len(ps)] >>, name |-> ps[Len(ps)] ]

\* _build_workspace_info(parts): 'relative' is the sequence of the segments
\* that the code joins with "/".
_build_workspace_info(ps) ==
    IF Len(ps) >= 2
    THEN [ found |-> TRUE, relative |-> << ps[1], ps[2] >>, name |-> ps[2] ]
    ELSE [ found |-> TRUE, relative |-> << ps[1] >>, name |-> ps[1] ]

\* A variant that accepts any first segment.
DetermineAnyWorkspace(start_path, root) ==
    IF Len(root) > Len(start_path) \/ SubSeq(start_path, 1, Len(root)) # root
    THEN NoWorkspace
    ELSE LET ps == SubSeq(start_path, Len(root) + 1, Len(start_path))
         IN  IF ps = <<>> THEN NoWorkspace ELSE _build_workspace_info(ps)

\* _determine_workspace(start_path, root); root is an ancestor of start_path
\* or start_path itself, relative_to raises for any other.
_determine_workspace(start_path, root) ==
    IF Len(root) > Len(start_path) \/ SubSeq(start_path, 1, Len(root)) # root
    THEN NoWorkspace
    ELSE LET ps == SubSeq(start_path, Len(root) + 1, Len(start_path))
         IN  IF ps = <<>> THEN NoWorkspace
             ELSE IF ps[1] \notin WORKSPACE_DIRS THEN NoWorkspace
             ELSE _build_workspace_info(ps)

NoMonorepo ==
    [ found |-> FALSE, root |-> <<>>, type |-> "", workspace_relative |-> <<>>,
      workspace_name |-> "", marker_file |-> "" ]

_build_monorepo_info(current, repo_type, workspace_info, marker) ==
    [ found |-> TRUE, root |-> current, type |-> repo_type,
      workspace_relative |-> workspace_info.relative,
      workspace_name |-> workspace_info.name, marker_file |-> marker ]

RECURSIVE StandardLoop(_, _, _, _)
\* The loop of _check_standard_markers over STANDARD_MARKERS[i..].
StandardLoop(files, current, start_path, i) ==
    IF i > Len(STANDARD_MARKERS) THEN NoMonorepo
    ELSE LET marker == STANDARD_MARKERS[i][1]
             workspace_info == _determine_workspace(start_path, current)
         IN  IF FileExists(files, current, marker) /\ workspace_info.found
             THEN _build_monorepo_info(current, STANDARD_MARKERS[i][2], workspace_info, marker)
             ELSE StandardLoop(files, current, start_path, i + 1)

_check_standard_markers(files, current, start_path) ==
    StandardLoop(files, current, start_path, 1)

\* _check_npm_workspaces: a package.json that parses and has "workspaces".
_check_npm_workspaces(files, current, start_path) ==
    LET workspace_info == _determine_workspace(start_path, current)
    IN  IF /\ RepoFile(current, "package.json", "workspaces") \in files
           /\ workspace_info.found
        THEN _build_monorepo_info(current, "npm-workspaces", workspace_info, "package.json")
        ELSE NoMonorepo

\* _check_custom_patterns: subgraphs/ is a directory with nested packages.
_check_custom_patterns(files, current, start_path) ==
    LET workspace_info == _determine_workspace(start_path, current)
    IN  IF /\ RepoFile(current, "subgraphs", "nested") \in files
           /\ workspace_info.found
        THEN _build_monorepo_info(current, "subgraphs", workspace_info, "subgraphs/")
        ELSE NoMonorepo

_check_all_markers(files, current, start_path) ==
    LET standard == _check_standard_markers(files, current, start_path)
        npm == _check_npm_workspaces(files, current, start_path)
    IN  IF standard.found THEN standard
        ELSE IF npm.found THEN npm
        ELSE _check_custom_patterns(files, current, start_path)

RECURSIVE WalkUnbounded(_, _, _, _, _)
\* A variant of the walk that goes on to "/" whatever the level.
WalkUnbounded(files, current, start_path, level, seen) ==
    LET result == _check_all_markers(files, current, start_path)
        checked == Append(seen, current)
    IN  IF result.found THEN [ result |-> result, examined |-> checked ]
        ELSE IF current = <<>> THEN [ result |-> NoMonorepo, examined |-> checked ]
        ELSE WalkUnbounded(files, SubSeq(current, 1, Len(current) - 1), start_path,
                           level + 1, checked)

RECURSIVE WalkUp(_, _, _, _, _)
\* The loop of detect_monorepo from `level` on: the result and the
\* directories checked.
WalkUp(files, current, start_path, level, seen) ==
    IF level >= MAX_WALK_LEVELS THEN [ result |-> NoMonorepo, examined |-> seen ]
    ELSE LET result == _check_all_markers(files, current, start_path)
             checked == Append(seen, current)
         IN  IF result.found THEN [ result |-> result, examined |-> checked ]
             ELSE IF current = <<>> THEN [ result |-> NoMonorepo, examined |-> checked ]
             ELSE WalkUp(files, SubSeq(current, 1, Len(current) - 1), start_path,
                         level + 1, checked)

\* detect_monorepo(cwd) for a resolved cwd.
detect_monorepo(files, cwd) == WalkUp(files, cwd, cwd, 0, <<>>)

MonoIdle ==
    /\ mono_cwd = <<>>
    /\ repo_files = {}
    /\ mono_result = NoMonorepo
    /\ examined = <<>>
    /\ mono_pc = "idle"

\* The working directories: a few places in a repository, as they are or with
\* one or MaxNesting "src" directories below them.
BasePaths ==
    { <<>>, << "apps" >>, << "m" >>, << "apps", "m" >>, << "libs", "m" >>,
      << "m", "apps" >>, << "apps", "m", "apps" >>, << "m", "apps", "m" >> }

Nested(k) == [ i \in 1..k |-> "src" ]

CwdPaths == { b \o Nested(k) : b \in BasePaths, k \in { 0, 1, MaxNesting } }

MonoInit ==
    /\ mono_cwd \in CwdPaths
    /\ repo_files = {}
    /\ mono_result = NoMonorepo
    /\ examined = <<>>
    /\ mono_pc = "idle"

\* What a directory of a repository can hold that the detection looks at.
MarkerKinds ==
    { << STANDARD_MARKERS[i][1], "" >> : i \in 1..Len(STANDARD_MARKERS) }
    \cup { << "package.json", "workspaces" >>, << "package.json", "plain" >>,
           << "subgraphs", "nested" >>, << "subgraphs", "empty" >> }

\* The ancestors of a directory, itself and "/" included.
Ancestors(dir) == { SubSeq(dir, 1, n) : n \in 0..Len(dir) }

\* A file or directory is created in an ancestor of the working directory.
CreateFile(dir, name, detail) ==
    /\ mono_pc = "idle"
    /\ Cardinality(repo_files) < MaxMarkers
    /\ ~FileExists(repo_files, dir, name)
    /\ repo_files' = repo_files \cup { RepoFile(dir, name, detail) }
    /\ UNCHANGED << mono_cwd, mono_result, examined, mono_pc >>
    /\ UNCHANGED << extract_vars, topic_vars, path_vars, merge_vars, file_vars, hook_side_vars >>

\* detect_monorepo(cwd)
DetectMonorepo ==
    /\ mono_pc = "idle"
    /\ LET out == detect_monorepo(repo_files, mono_cwd) IN
       /\ mono_result' = out.result
       /\ examined' = out.examined
    /\ mono_pc' = "done"
    /\ UNCHANGED << mono_cwd, repo_files >>
    /\ UNCHANGED << extract_vars, topic_vars, path_vars, merge_vars, file_vars, hook_side_vars >>

(***************************************************************************)
(* The cache of detect_monorepo: @lru_cache(maxsize=128)                   *)
(***************************************************************************)

\* The most detect_monorepo calls of one process, and the most marker files.
MaxCalls == 3
MaxCacheFiles == 2

CACHE_MAXSIZE == 128

\* A cwd string is the sequence of its "/" separators and its segments.
CwdStrings ==
    { << "/", "apps", "/", "m" >>, << "/", "apps", "/", "m", "/" >>,
      << "/", "apps", "/", ".", "/", "m" >>, << "/", "libs", "/", "m" >>,
      << "/", "m" >> }

\* Path(cwd).resolve() of an absolute path without links: the segments, with
\* the separators and the "." segments dropped.
Resolve(cwd) == SelectSeq(cwd, LAMBDA seg : seg \notin { "/", "." })

\* A lookup that never finds an entry.
NeverCached(cache, key) == 0

\* The place of the entry for the key in the cache, 0 when there is none.  The
\* key is the argument as it was passed.
CacheLookup(cache, key) ==
    IF \E k \in 1..Len(cache) : cache[k].key = key
    THEN CHOOSE k \in 1..Len(cache) : cache[k].key = key
    ELSE 0

\* The cache after a hit: the entry becomes the most recently used.
Touched(cache, k) ==
    [ j \in 1..Len(cache) |->
        IF j < k THEN cache[j] ELSE IF j < Len(cache) THEN cache[j + 1] ELSE cache[k] ]

\* The cache after a miss: the least recently used entry goes when it is full.
Stored(cache, key, value) ==
    Append(IF Len(cache) >= CACHE_MAXSIZE THEN Tail(cache) ELSE cache,
           [ key |-> key, value |-> value ])

CacheInit ==
    /\ cache_fs \in { {}, { RepoFile(<<>>, "nx.json", "") } }
    /\ lru = <<>>
    /\ cache_calls = <<>>

\* detect_monorepo(cwd) through the cache.
CachedDetect(cwd) ==
    /\ Len(cache_calls) < MaxCalls
    /\ LET hit == CacheLookup(lru, cwd)
           computed == detect_monorepo(cache_fs, Resolve(cwd)).result
           result == IF hit # 0 THEN lru[hit].value ELSE computed
       IN  /\ lru' = IF hit # 0 THEN Touched(lru, hit) ELSE Stored(lru, cwd, computed)
           /\ cache_calls' = Append(cache_calls,
                                    [ cwd |-> cwd, result |-> result,
                                      examined |-> (hit = 0), fs |-> cache_fs ])
    /\ UNCHANGED cache_fs
    /\ UNCHANGED << core_vars, hook_vars, log_vars, call_vars, clean_vars, confirm_vars >>

\* A marker file or directory appears in the repository between two calls.
ChangeRepository(dir, name, detail) ==
    /\ Len(cache_calls) < MaxCalls
    /\ Cardinality(cache_fs) < MaxCacheFiles
    /\ ~FileExists(cache_fs, dir, name)
    /\ cache_fs' = cache_fs \cup { RepoFile(dir, name, detail) }
    /\ UNCHANGED << lru, cache_calls >>
    /\ UNCHANGED << core_vars, hook_vars, log_vars, call_vars, clean_vars, confirm_vars >>

(***************************************************************************)
(* The stop hook's main: hooks/stop.py                                     *)
(***************************************************************************)

\* The most changes a session of the model yields.
MaxChanges == 2

\* extract_session_context is defined with one parameter after self and is
\* called by main with two arguments.
EXTRACT_DEF_PARAMS == 1
EXTRACT_CALL_ARGS == 2

\* What one run of the hook meets.  input: standard input is not JSON
\* ("badjson"), JSON that is not an object ("nonobject"), or an object;
\* excluded: is_excluded(cwd); n_changes: len(get_changes()); threshold:
\* min_changes_threshold; fail_at: the step at which the filesystem or an
\* external collaborator fails, "" when none does.
HookRuns ==
    [ made : { TRUE }, input : { "badjson", "nonobject", "object" },
      excluded : BOOLEAN, n_changes : 0..MaxChanges, threshold : 0..MaxChanges,
      fail_at : { "", "debug_file", "context_dir", "write_log", "git" } ]

EmptyObject == [ kind |-> "empty", error |-> "" ]
SystemMessage(error) == [ kind |-> "systemMessage", error |-> error ]

\* An exception handler that prints nothing.
HandlerSilent(error) == <<>>

\* What main's 'except Exception' prints.
HandlerOutput(error) == << SystemMessage(error) >>

HookInit ==
    /\ hook_run \in HookRuns
    /\ hook_pc = "read"
    /\ pending = ""
    /\ stdout = <<>>
    /\ exit_status = -1
    /\ logs_written = 0

\* json.load(sys.stdin), the debug file and the logging of the input's keys.
ReadInput ==
    /\ hook_pc = "read"
    /\ LET error == IF hook_run.input = "badjson" THEN "JSONDecodeError"
                    ELSE IF hook_run.fail_at = "debug_file" THEN "OSError"
                    ELSE IF hook_run.input = "nonobject" THEN "AttributeError"
                    ELSE ""
       IN  /\ pending' = error
           /\ hook_pc' = IF error = "" THEN "excluded" ELSE "except"
    /\ UNCHANGED << hook_run, stdout, exit_status, logs_written >>
    /\ UNCHANGED << core_vars, cache_vars, log_vars, call_vars, clean_vars, confirm_vars >>

\* load_config and the excluded-path check: print {} and sys.exit(0).
CheckExcluded ==
    /\ hook_pc = "excluded"
    /\ IF hook_run.excluded
       THEN /\ stdout' = Append(stdout, EmptyObject)
            /\ pending' = "SystemExit"
            /\ hook_pc' = "finally"
       ELSE /\ hook_pc' = "changes"
            /\ UNCHANGED << stdout, pending >>
    /\ UNCHANGED << hook_run, exit_status, logs_written >>
    /\ UNCHANGED << core_vars, cache_vars, log_vars, call_vars, clean_vars, confirm_vars >>

\* get_changes and the threshold check: print {} and sys.exit(0).
CheckChanges ==
    /\ hook_pc = "changes"
    /\ IF hook_run.n_changes < hook_run.threshold
       THEN /\ stdout' = Append(stdout, EmptyObject)
            /\ pending' = "SystemExit"
            /\ hook_pc' = "finally"
       ELSE /\ hook_pc' = "pipeline"
            /\ UNCHANGED << stdout, pending >>
    /\ UNCHANGED << hook_run, exit_status, logs_written >>
    /\ UNCHANGED << core_vars, cache_vars, log_vars, call_vars, clean_vars, confirm_vars >>

\* The outcome of lines 566-671: the exception that ends them ("" when they
\* run to the final print) and the session logs written.  A failure of the
\* monorepo detection is caught where it happens.
PipelineOutcome(run) ==
    IF run.fail_at = "context_dir" THEN [ error |-> "OSError", logs |-> 0 ]
    ELSE IF EXTRACT_CALL_ARGS # EXTRACT_DEF_PARAMS THEN [ error |-> "TypeError", logs |-> 0 ]
    ELSE IF run.fail_at = "write_log" THEN [ error |-> "OSError", logs |-> 0 ]
    ELSE IF run.fail_at = "git" THEN [ error |-> "OSError", logs |-> 1 ]
    ELSE [ error |-> "", logs |-> 1 ]

\* Context directory, cleanup, topics, extract_session_context,
\* write_session_log, the wiki update, git sync and the final print.
Pipeline ==
    /\ hook_pc = "pipeline"
    /\ LET out == PipelineOutcome(hook_run) IN
       /\ logs_written' = logs_written + out.logs
       /\ pending' = out.error
       /\ stdout' = IF out.error = "" THEN Append(stdout, EmptyObject) ELSE stdout
       /\ hook_pc' = IF out.error = "" THEN "finally" ELSE "except"
    /\ UNCHANGED << hook_run, exit_status >>
    /\ UNCHANGED << core_vars, cache_vars, log_vars, call_vars, clean_vars, confirm_vars >>

\* except Exception as e: log and print the systemMessage object.
Except ==
    /\ hook_pc = "except"
    /\ stdout' = stdout \o HandlerOutput(pending)
    /\ pending' = ""
    /\ hook_pc' = "finally"
    /\ UNCHANGED << hook_run, exit_status, logs_written >>
    /\ UNCHANGED << core_vars, cache_vars, log_vars, call_vars, clean_vars, confirm_vars >>

\* finally: sys.exit(0), which replaces a SystemExit on its way.
Finally ==
    /\ hook_pc = "finally"
    /\ exit_status' = 0
    /\ pending' = ""
    /\ hook_pc' = "exited"
    /\ UNCHANGED << hook_run, stdout, logs_written >>
    /\ UNCHANGED << core_vars, cache_vars, log_vars, call_vars, clean_vars, confirm_vars >>

(***************************************************************************)
(* history/: MarkdownWriter.write_session_log                              *)
(***************************************************************************)

\* The most sessions logged and the last minute of the model's clock.
MaxSessions == 3
MaxMinute == 2

\* A topic name is the sequence of its characters.
LogTopics ==
    { << "a", "p", "i" >>, << "A", "p", "i" >>, << "a", " ", "p" >>,
      << "a", "-", "p" >>, << "d", "b" >> }

\* The topic lists a session can have: none, or one or two names.
SessionTopics == { <<>> } \cup { << t >> : t \in LogTopics }
                 \cup { << << "d", "b" >>, t >> : t \in LogTopics }

\* topics[0].lower().replace(" ", "-")
Slug(name) == [ k \in 1..Len(name) |-> IF Lower(name)[k] = " " THEN "-" ELSE Lower(name)[k] ]

\* f"{date_str}_{topic_slug}.md": the minute and the slug of the first topic,
\* "general" when there is no topic.
LogFileName(now, topics) ==
    [ minute |-> now,
      slug |-> Slug(IF topics = <<>> THEN << "g", "e", "n", "e", "r", "a", "l" >>
                    ELSE topics[1]) ]

\* Path.write_text: the file is created, or its content replaced.
WriteText(files, name, content) ==
    { f \in files : f.name # name } \cup { [ name |-> name, content |-> content ] }

LogInit ==
    /\ history_dir = {}
    /\ clock = 0
    /\ sessions = <<>>

\* A minute passes.
MinutePasses ==
    /\ clock < MaxMinute
    /\ clock' = clock + 1
    /\ UNCHANGED << history_dir, sessions >>
    /\ UNCHANGED << core_vars, cache_vars, hook_vars, call_vars, clean_vars, confirm_vars >>

\* write_session_log for the next session; its entry is the session's own.
WriteSessionLog(topics) ==
    /\ Len(sessions) < MaxSessions
    /\ LET name == LogFileName(clock, topics)
           entry == Len(sessions) + 1
       IN  /\ history_dir' = WriteText(history_dir, name, entry)
           /\ sessions' = Append(sessions, [ name |-> name, content |-> entry ])
    /\ UNCHANGED clock
    /\ UNCHANGED << core_vars, cache_vars, hook_vars, call_vars, clean_vars, confirm_vars >>

(***************************************************************************)
(* Session context: SessionAnalyzer.extract_session_context, LLMClient     *)
(***************************************************************************)

\* A line of an LLM response: the prefix the parser looks for ("" when the
\* line has none of them) and the text after it, stripped.
ResponseLine(prefix, text) == [ prefix |-> prefix, text |-> text ]

\* _fallback_response(prompt): "" when the prompt mentions "session context",
\* one fixed sentence otherwise.  '' splits into one empty line.
FallbackSentence == << ResponseLine("", "Changes made during this session.") >>
EmptyResponse == << ResponseLine("", "") >>

_fallback_response(prompt_mentions_session_context) ==
    IF prompt_mentions_session_context THEN EmptyResponse ELSE FallbackSentence

\* What the CLI does when it is run: "unavailable" (not on PATH), "nonzero"
\* (exit status not 0), "timeout", "raises" (any other exception), "ok".
CliOutcomes == { "unavailable", "nonzero", "timeout", "raises", "ok" }

\* LLMClient.generate for either provider: the CLI's output when it ran and
\* exited with 0, the fallback response in every other case; it never raises.
generate(cli, response, prompt_mentions_session_context) ==
    IF cli = "ok" THEN response
    ELSE _fallback_response(prompt_mentions_session_context)

NoContext ==
    [ user_goal |-> "", summary |-> "", decisions_made |-> <<>>,
      problems_solved |-> <<>>, future_work |-> <<>> ]

RECURSIVE ParseResponse(_, _, _, _)
\* The loop of _parse_context_response over lines[i..].
ParseResponse(lines, i, current_section, ctx) ==
    IF i > Len(lines) THEN ctx
    ELSE LET line == lines[i] IN
         IF line.prefix = "" /\ line.text = ""
         THEN ParseResponse(lines, i + 1, current_section, ctx)
         ELSE IF line.prefix = "USER_GOAL:"
         THEN ParseResponse(lines, i + 1, current_section, [ ctx EXCEPT !.user_goal = line.text ])
         ELSE IF line.prefix = "SUMMARY:"
         THEN ParseResponse(lines, i + 1, current_section, [ ctx EXCEPT !.summary = line.text ])
         ELSE IF line.prefix = "DECISIONS:"
         THEN ParseResponse(lines, i + 1, "decisions", ctx)
         ELSE IF line.prefix = "PROBLEMS_SOLVED:"
         THEN ParseResponse(lines, i + 1, "problems", ctx)
         ELSE IF line.prefix = "FUTURE_WORK:"
         THEN ParseResponse(lines, i + 1, "future", ctx)
         ELSE IF line.prefix = "- " /\ current_section # ""
         THEN (IF line.text \in { "none", "None" }
               THEN ParseResponse(lines, i + 1, current_section, ctx)
               ELSE ParseResponse(lines, i + 1, current_section,
                      CASE current_section = "decisions" ->
                             [ ctx EXCEPT !.decisions_made = Append(@, line.text) ]
                        [] current_section = "problems" ->
                             [ ctx EXCEPT !.problems_solved = Append(@, line.text) ]
                        [] OTHER ->
                             [ ctx EXCEPT !.future_work = Append(@, line.text) ]))
         ELSE ParseResponse(lines, i + 1, current_section, ctx)

_parse_context_response(response) == ParseResponse(response, 1, "", NoContext)

\* Path(file_path).suffix of the paths of the model.
Suffix(file_path) ==
    CASE file_path \in { "a.py", "b.py", "z.py" } -> ".py"
      [] file_path = "r.md" -> ".md"
      [] OTHER -> ""

\* f"Modified {n} file(s)" with " (<sorted extensions>)" when there are any.
SummaryText(n, file_types) ==
    CASE file_types = {} ->
           (CASE n = 0 -> "Modified 0 file(s)" [] n = 1 -> "Modified 1 file(s)"
              [] n = 2 -> "Modified 2 file(s)" [] OTHER -> "Modified 3 file(s)")
      [] file_types = { ".py" } ->
           (CASE n = 1 -> "Modified 1 file(s) (.py)" [] n = 2 -> "Modified 2 file(s) (.py)"
              [] OTHER -> "Modified 3 file(s) (.py)")
      [] file_types = { ".md" } ->
           (CASE n = 1 -> "Modified 1 file(s) (.md)" [] n = 2 -> "Modified 2 file(s) (.md)"
              [] OTHER -> "Modified 3 file(s) (.md)")
      [] OTHER ->
           (CASE n = 2 -> "Modified 2 file(s) (.md, .py)"
              [] OTHER -> "Modified 3 file(s) (.md, .py)")

_fallback_context(change_paths) ==
    LET file_types == { Suffix(change_paths[k]) : k \in 1..Len(change_paths) } \ { "" }
    IN  [ NoContext EXCEPT !.summary = SummaryText(Len(change_paths), file_types) ]

\* extract_session_context(changes): the fallback context when the transcript
\* is absent, unreadable or empty or when generate raises, the parsed
\* response otherwise.
extract_session_context(transcript_state, cli, response, change_paths) ==
    IF transcript_state \in { "absent", "unreadable", "empty" }
    THEN _fallback_context(change_paths)
    ELSE _parse_context_response(
             generate(cli, response, transcript_state = "mentions session context"))

\* The inputs of the model: the transcript, the changed paths, the CLI's answer.
TranscriptStates == { "absent", "unreadable", "empty", "text", "mentions session context" }

ChangeLists ==
    { <<>>, << "a.py" >>, << "r.md" >>, << "Makefile" >>, << "a.py", "b.py" >>,
      << "a.py", "r.md" >>, << "Makefile", "a.py" >>, << "a.py", "r.md", "Makefile" >> }

Responses ==
    { << ResponseLine("USER_GOAL:", "g"), ResponseLine("SUMMARY:", "s"),
         ResponseLine("DECISIONS:", ""), ResponseLine("- ", "d1"), ResponseLine("- ", "None") >>,
      << ResponseLine("- ", "stray"), ResponseLine("SUMMARY:", "s"),
         ResponseLine("FUTURE_WORK:", ""), ResponseLine("- ", "t1") >>,
      << ResponseLine("", "no structure") >> }

\* analyzer.extract_session_context(changes)
ExtractSessionContext(transcript_state, cli, response, change_paths) ==
    /\ context_call' =
          [ made |-> TRUE, transcript |-> transcript_state, cli |-> cli,
            changes |-> change_paths, raised |-> FALSE,
            ctx |-> extract_session_context(transcript_state, cli, response, change_paths) ]
    /\ UNCHANGED classify_call
    /\ UNCHANGED << core_vars, cache_vars, hook_vars, log_vars, clean_vars, confirm_vars >>

(***************************************************************************)
(* Path classifier: core/path_classifier.py                                *)
(***************************************************************************)

\* The most patterns a configuration list of the model holds.
MaxPatterns == 2

\* Path strings are sequences of pieces of text: "/", "~" and pieces of names,
\* none of which is a prefix of another, so that one sequence is a prefix of
\* another exactly when the one string is a character prefix of the other.
HomeDir == << "/", "home" >>

\* The working directories of the model: /home/work, /home/work/x,
\* /home/work/x/x, /home/workshop, /home/workshop/x, /home/x, /home, /tmp/x,
\* /tmpshop.
ClassifiedCwds ==
    { << "/", "home", "/", "work" >>,
      << "/", "home", "/", "work", "/", "x" >>,
      << "/", "home", "/", "work", "/", "x", "/", "x" >>,
      << "/", "home", "/", "work", "shop" >>,
      << "/", "home", "/", "work", "shop", "/", "x" >>,
      << "/", "home", "/", "x" >>,
      << "/", "home" >>,
      << "/", "tmp", "/", "x" >>,
      << "/", "tmp", "shop" >> }

\* The configured directories of the model: /home/work/, /home/work, ~/work/,
\* /home/work/x, /tmp/.
PathPatterns ==
    { << "/", "home", "/", "work", "/" >>,
      << "/", "home", "/", "work" >>,
      << "~", "/", "work", "/" >>,
      << "/", "home", "/", "work", "/", "x" >>,
      << "/", "tmp", "/" >> }

DirectoryLists == SeqsUpTo(PathPatterns, MaxPatterns)

RECURSIVE StripTrailingSlashes(_)
\* str(Path(p)) drops the slashes a path ends with, the root's excepted.
StripTrailingSlashes(p) ==
    IF Len(p) > 1 /\ p[Len(p)] = "/" THEN StripTrailingSlashes(SubSeq(p, 1, Len(p) - 1))
    ELSE p

\* Path(p).expanduser(): a leading ~ becomes the home directory.
expanduser(p) == IF p # <<>> /\ p[1] = "~" THEN HomeDir \o Tail(p) ELSE p

\* str(Path(p).expanduser())
ExpandedPattern(p) == expanduser(StripTrailingSlashes(p))

\* s.startswith(prefix)
startswith(s, prefix) ==
    /\ Len(prefix) <= Len(s)
    /\ SubSeq(s, 1, Len(prefix)) = prefix

\* A startswith that also asks for the end of a path segment after the prefix.
StartsWithSegment(s, prefix) ==
    /\ Len(prefix) <= Len(s)
    /\ SubSeq(s, 1, Len(prefix)) = prefix
    /\ Len(s) > Len(prefix) => s[Len(prefix) + 1] = "/"

\* The loop 'for pattern in ...: if cwd.startswith(pattern)'.
MatchesAny(cwd, patterns) ==
    \E k \in 1..Len(patterns) : startswith(cwd, ExpandedPattern(patterns[k]))

\* PathClassifier.classify(cwd, config), with config['work_path_patterns'].
classify(cwd, work_path_patterns) ==
    IF MatchesAny(cwd, work_path_patterns) THEN "work" ELSE "personal"

\* PathClassifier.is_excluded(cwd, config), with config['excluded_paths'].
is_excluded(cwd, excluded_paths) == MatchesAny(cwd, excluded_paths)

ClassifyPath(cwd, work_path_patterns) ==
    /\ classify_call' =
          [ made |-> TRUE, operation |-> "classify", cwd |-> cwd,
            patterns |-> work_path_patterns,
            classification |-> classify(cwd, work_path_patterns),
            excluded |-> FALSE ]
    /\ UNCHANGED context_call
    /\ UNCHANGED << core_vars, cache_vars, hook_vars, log_vars, clean_vars, confirm_vars >>

IsExcluded(cwd, excluded_paths) ==
    /\ classify_call' =
          [ made |-> TRUE, operation |-> "is_excluded", cwd |-> cwd,
            patterns |-> excluded_paths,
            classification |-> "",
            excluded |-> is_excluded(cwd, excluded_paths) ]
    /\ UNCHANGED context_call
    /\ UNCHANGED << core_vars, cache_vars, hook_vars, log_vars, clean_vars, confirm_vars >>

(***************************************************************************)
(* Legacy cleanup: hooks/stop.py, cleanup_old_topic_files                  *)
(***************************************************************************)

\* The most cleanup calls of a behaviour.
MaxCleanups == 3

\* A file in or below the context directory: the sub-directory it is in ("" for
\* the top level) and its name, stem and extension.
File(dir, stem, ext) == [ dir |-> dir, stem |-> stem, ext |-> ext ]

ContextMd == File("", "context", ".md")
MarkerFile == File("", ".migrated", "")

\* The files sessions and users create: context.md, two legacy topic files, a
\* text file, a plan, a session log, and the marker.
CreatedFiles ==
    { ContextMd, File("", "auth", ".md"), File("", "api", ".md"),
      File("", "notes", ".txt"), File("plans", "plan", ".md"),
      File("history", "log", ".md"), MarkerFile }

\* A gate that never closes.
NeverGated(marker_exists) == FALSE

\* if marker_file.exists(): return
MarkerGates(marker_exists) == marker_exists

\* context_dir.glob('*.md'): the files of the top level whose name ends in .md.
GlobMd(files) == { f \in files : f.dir = "" /\ f.ext = ".md" }

\* The files the loop unlinks: every match but context.md.
Unlinked(files) == { f \in GlobMd(files) : ~(f.stem = "context" /\ f.ext = ".md") }

\* cleanup_old_topic_files(context_dir): the files of the directory afterwards.
cleanup_old_topic_files(exists, files) ==
    IF MarkerGates(MarkerFile \in files) THEN files
    ELSE IF ~exists THEN files
    ELSE (files \ Unlinked(files)) \cup { MarkerFile }

CleanInit ==
    /\ dir_exists \in BOOLEAN
    /\ dir_files = {}
    /\ cleanup_log = <<>>

\* ensure_directory(context_dir)
MakeDirectory ==
    /\ ~dir_exists
    /\ dir_exists' = TRUE
    /\ UNCHANGED << dir_files, cleanup_log >>
    /\ UNCHANGED << core_vars, cache_vars, hook_vars, log_vars, call_vars, confirm_vars >>

\* A session or the user writes a file in or below the directory.
WriteFile(f) ==
    /\ dir_exists
    /\ dir_files' = dir_files \cup { f }
    /\ UNCHANGED << dir_exists, cleanup_log >>
    /\ UNCHANGED << core_vars, cache_vars, hook_vars, log_vars, call_vars, confirm_vars >>

\* One call of cleanup_old_topic_files; the log keeps what the call met and
\* which files it removed.
CleanupOldTopicFiles ==
    /\ Len(cleanup_log) < MaxCleanups
    /\ dir_files' = cleanup_old_topic_files(dir_exists, dir_files)
    /\ cleanup_log' = Append(cleanup_log,
          [ existed |-> dir_exists,
            marker_before |-> MarkerFile \in dir_files,
            legacy_before |-> Unlinked(dir_files) # {},
            deleted |-> dir_files \ dir_files' ])
    /\ UNCHANGED dir_exists
    /\ UNCHANGED << core_vars, cache_vars, hook_vars, log_vars, call_vars, confirm_vars >>

(***************************************************************************)
(* Monorepo confirmation: hooks/stop.py, prompt_monorepo_confirmation      *)
(***************************************************************************)

\* The most confirmation calls of a behaviour.
MaxPrompts == 3

\* info.root of the monorepos the model detects.
MonorepoRoots == { "/r1", "/r2" }

\* What input() meets: a line of text (a sequence of characters, the newline
\* removed), the end of standard input, or Ctrl-C.
Answer(kind, text) == [ kind |-> kind, text |-> text ]

Answers ==
    { Answer("line", t) :
        t \in { <<>>, << " " >>, << "y" >>, << "Y" >>, << "y", "e", "s" >>,
                << " ", "Y", "e", "S", " " >>, << "\t", "y" >>, << "n" >>,
                << "N", "o" >>, << "y", "e" >>, << "y", " ", "e", "s" >>,
                << "y", "e", "s", "s" >> } }
    \cup { Answer("eof", <<>>), Answer("interrupt", <<>>) }

\* CLAUDE_PLUGIN_ROOT: not set, naming a config.json that can be written, or
\* one that cannot.
PluginRoots == { "unset", "writable", "unwritable" }

RECURSIVE lstrip(_)
lstrip(text) ==
    IF text # <<>> /\ Head(text) \in { " ", "\t" } THEN lstrip(Tail(text)) ELSE text

RECURSIVE rstrip(_)
rstrip(text) ==
    IF text # <<>> /\ text[Len(text)] \in { " ", "\t" }
    THEN rstrip(SubSeq(text, 1, Len(text) - 1)) ELSE text

\* str.strip()
strip(text) == rstrip(lstrip(text))

\* str.lower() on the letters of the answers.
lower(text) ==
    [ k \in 1..Len(text) |->
        CASE text[k] = "Y" -> "y" [] text[k] = "E" -> "e" [] text[k] = "S" -> "s"
          [] text[k] = "N" -> "n" [] text[k] = "O" -> "o" [] OTHER -> text[k] ]

\* _get_user_confirmation: EOFError and KeyboardInterrupt give False.
_get_user_confirmation(answer) ==
    /\ answer.kind = "line"
    /\ lower(strip(answer.text)) \in { <<>>, << "y" >>, << "y", "e", "s" >> }

_is_previously_confirmed(root, projects) == \E k \in 1..Len(projects) : projects[k] = root

\* A save that leaves the list as it was.
NotAppended(projects, root) == projects

\* confirmed_projects.append(info.root)
Appended(projects, root) == Append(projects, root)

\* _save_confirmed_project: the list of the configuration in memory, the list
\* in config.json, and whether the save succeeded.
_save_confirmed_project(root, projects, file, plugin_root) ==
    LET saved == Appended(projects, root) IN
    [ projects |-> saved,
      file |-> IF plugin_root = "writable" THEN saved ELSE file,
      ok |-> plugin_root # "unwritable" ]

ConfirmInit ==
    /\ confirmed_projects \in { <<>>, << "/r1" >> }
    /\ config_file = confirmed_projects
    /\ confirm_log = <<>>

\* prompt_monorepo_confirmation(info, config); the log keeps the root, the
\* list the call found, whether the call printed the prompt and read an answer,
\* and what it returned.
PromptMonorepoConfirmation(root, answer, plugin_root) ==
    /\ Len(confirm_log) < MaxPrompts
    /\ IF _is_previously_confirmed(root, confirmed_projects)
       THEN /\ confirm_log' = Append(confirm_log,
                   [ root |-> root, projects_before |-> confirmed_projects,
                     prompted |-> FALSE, answer |-> Answer("none", <<>>),
                     confirmed |-> TRUE ])
            /\ UNCHANGED << confirmed_projects, config_file >>
       ELSE LET confirmed == _get_user_confirmation(answer)
                save == _save_confirmed_project(root, confirmed_projects, config_file,
                                                plugin_root)
            IN  /\ confirm_log' = Append(confirm_log,
                       [ root |-> root, projects_before |-> confirmed_projects,
                         prompted |-> TRUE, answer |-> answer,
                         confirmed |-> confirmed ])
                /\ confirmed_projects' = IF confirmed THEN save.projects
                                         ELSE confirmed_projects
                /\ config_file' = IF confirmed THEN save.file ELSE config_file
    /\ UNCHANGED << core_vars, cache_vars, hook_vars, log_vars, call_vars, clean_vars >>

\* The components around the hook at rest.
NotCalled == [ made |-> FALSE ]

CacheIdle == cache_fs = {} /\ lru = <<>> /\ cache_calls = <<>>

HookIdle ==
    /\ hook_run = NotCalled /\ hook_pc = "idle" /\ pending = "" /\ stdout = <<>>
    /\ exit_status = -1 /\ logs_written = 0

LogIdle == history_dir = {} /\ clock = 0 /\ sessions = <<>>

ContextIdle == context_call = NotCalled

ClassifyIdle == classify_call = NotCalled

CleanIdle == dir_exists = FALSE /\ dir_files = {} /\ cleanup_log = <<>>

ConfirmIdle == confirmed_projects = <<>> /\ config_file = <<>> /\ confirm_log = <<>>

HookSideIdle ==
    CacheIdle /\ HookIdle /\ LogIdle /\ ContextIdle /\ ClassifyIdle /\ CleanIdle /\ ConfirmIdle

CoreIdle == ExtractIdle /\ TopicIdle /\ PathIdle /\ MergeIdle /\ FileIdle /\ MonoIdle

(***************************************************************************)
(* Specifications                                                          *)
(***************************************************************************)

\* The sessions the merges of SpecMerge fold in: decisions of every shape,
\* alone or with a summary and two solved problems.
MergeSessions ==
    { SessionContext("", d, <<>>) : d \in SeqsUpTo(Strs, MaxNew) }
    \cup { SessionContext("s1", d, << StrABC, StrAbcd >>) : d \in SeqsUpTo(Strs, MaxNew) }

MergeInit ==
    /\ wiki \in { WikiKnowledge("arch", d, << StrAb >>, << StrAbcd >>, i, <<>>) :
                    d \in { <<>>, << StrAbcd, <<>>, StrAb >> },
                    i \in { <<>>, << StrAb >> } }
    /\ today = 1
    /\ last_call = NoCall
    /\ entries_added = <<>>
    /\ summaries_only = TRUE
    /\ wiki0 = wiki
    /\ dedup_call = NoDedup

\* The sessions of SpecRotate: with and without a summary, nothing else.
RotateSessions == { SessionContext(su, <<>>, <<>>) : su \in { "", "s1", "s2" } }

OldEntries == [ k \in 1..6 |-> Entry(0, "old") ]

RotateInit ==
    /\ wiki \in { WikiKnowledge("arch", <<>>, <<>>, <<>>, <<>>, r) :
                    r \in { <<>>, OldEntries } }
    /\ today = 1
    /\ last_call = NoCall
    /\ entries_added = <<>>
    /\ summaries_only = TRUE
    /\ wiki0 = wiki
    /\ dedup_call = NoDedup

\* The sessions and the knowledge bases of SpecBound: a recent-work list that is
\* empty or already six entries long, merged under every kind of max_recent.
MaxBoundEntries == 2
MaxRecents == { -1, 0, 1, 2, DEFAULT_MAX_RECENT }

BoundSessions ==
    { SessionContext(su, d, <<>>) : su \in { "", "s1", "s2" }, d \in { <<>>, << StrAb >> } }

StoredEntries ==
    << Entry(0, "o1"), Entry(0, "o2"), Entry(0, "o3"),
       Entry(0, "o4"), Entry(0, "o5"), Entry(0, "o6") >>

BoundInit ==
    /\ wiki \in { WikiKnowledge("arch", <<>>, << StrAb >>, << StrAbcd >>, <<>>, r) :
                    r \in { <<>>, StoredEntries } }
    /\ today = 1
    /\ last_call = NoCall
    /\ entries_added = <<>>
    /\ summaries_only = TRUE
    /\ wiki0 = wiki
    /\ dedup_call = NoDedup

\* The thresholds and the lists of SpecDedup: inside, on the edge of and outside
\* the range 0.0 to 1.0.
Thresholds ==
    { Fraction(-1, 2), Fraction(0, 1), MERGE_THRESHOLD, Fraction(1, 1), Fraction(3, 2) }

ExistingLists == { <<>>, << StrAb >>, << StrAbcd, <<>>, StrAb >> }

\* The knowledge bases SpecFile writes and parses back (SpecParse parses files
\* written by hand): list items are non-empty single-line
\* strings without surrounding whitespace; the architecture is empty, one line,
\* or a block that holds a heading and a bullet of its own.
WikiItems == { "x", "y" }

WrittenWikis ==
    { WikiKnowledge(a, d, p, k, i, r) :
        a \in { <<>>, << MdLine("", "arch") >>, << Heading2("Decisions"), Bullet("fake") >> },
        d \in SeqsUpTo(WikiItems, MaxWikiItems),
        p \in { <<>>, << "p" >> },
        k \in { <<>>, << "k" >> },
        i \in { <<>>, << "i" >> },
        r \in SeqsUpTo(WikiItems, MaxWikiItems) }

\* The lines of a hand-written context.md.
FileLines ==
    { Heading2("Decisions"), Heading2("Issues"), Heading2("Decisions Log"),
      MdLine("### ", "Decisions"), Bullet("x"), MdLine("* ", "y"), Bullet("x "),
      MdLine("", "note"), Blank }

NextExtract ==
    \/ \E l \in Lines : WriteLine(l)
    \/ GetChanges

NextTopic ==
    \/ \E n \in TopicNames, pl \in PatternLists, pr \in Priorities :
          DeclareRule(TopicRule(n, pl, pr))
    \/ \E path \in ChangePaths : Classify(path)

NextPath ==
    \/ \E g \in PrefixGroupings(parts) :
          Mkdir(SubSeq(g, 1, Len(g) - 1), g[Len(g)])
    \/ FindValidPath

NextMerge ==
    \E session \in MergeSessions :
        MergeSession(session, DEFAULT_MAX_RECENT, MaxMergeEntries)

NextRotate ==
    \/ \E session \in RotateSessions :
          MergeSession(session, DEFAULT_MAX_RECENT, MaxRotations)
    \/ NextDay

NextBound ==
    \/ \E session \in BoundSessions, max_recent \in MaxRecents :
          MergeSession(session, max_recent, MaxBoundEntries)
    \/ NextDay

NextDedup ==
    \E existing \in ExistingLists, new_items \in SeqsUpTo(Strs, MaxNew),
       threshold \in Thresholds :
        Deduplicate(existing, new_items, threshold)

NextFile ==
    \/ \E w \in WrittenWikis : WriteWiki(w)
    \/ ParseFile

NextParse ==
    \/ \E l \in FileLines : EditFile(l)
    \/ ParseFile

NextMono ==
    \/ \E dir \in Ancestors(mono_cwd), kind \in MarkerKinds :
          CreateFile(dir, kind[1], kind[2])
    \/ DetectMonorepo

NextCache ==
    \/ \E cwd \in CwdStrings : CachedDetect(cwd)
    \/ \E dir \in { <<>>, << "apps" >> }, kind \in MarkerKinds :
          ChangeRepository(dir, kind[1], kind[2])

NextHook ==
    \/ ReadInput
    \/ CheckExcluded
    \/ CheckChanges
    \/ Pipeline
    \/ Except
    \/ Finally

NextLog ==
    \/ MinutePasses
    \/ \E topics \in SessionTopics : WriteSessionLog(topics)

NextContext ==
    \E transcript_state \in TranscriptStates, cli \in CliOutcomes,
       response \in Responses, change_paths \in ChangeLists :
        ExtractSessionContext(transcript_state, cli, response, change_paths)

NextClassify ==
    \/ \E cwd \in ClassifiedCwds, patterns \in DirectoryLists : ClassifyPath(cwd, patterns)
    \/ \E cwd \in ClassifiedCwds, patterns \in DirectoryLists : IsExcluded(cwd, patterns)

NextClean ==
    \/ MakeDirectory
    \/ \E f \in CreatedFiles : WriteFile(f)
    \/ CleanupOldTopicFiles

NextConfirm ==
    \/ \E root \in MonorepoRoots, answer \in Answers, plugin_root \in PluginRoots :
          PromptMonorepoConfirmation(root, answer, plugin_root)

InitExtract == ExtractInit /\ TopicIdle /\ PathIdle /\ MergeIdle /\ FileIdle /\ MonoIdle /\ HookSideIdle
InitTopic == ExtractIdle /\ TopicInit /\ PathIdle /\ MergeIdle /\ FileIdle /\ MonoIdle /\ HookSideIdle
InitPath == ExtractIdle /\ TopicIdle /\ PathInit /\ MergeIdle /\ FileIdle /\ MonoIdle /\ HookSideIdle
InitMerge == ExtractIdle /\ TopicIdle /\ PathIdle /\ MergeInit /\ FileIdle /\ MonoIdle /\ HookSideIdle
InitRotate == ExtractIdle /\ TopicIdle /\ PathIdle /\ RotateInit /\ FileIdle /\ MonoIdle /\ HookSideIdle

InitBound == ExtractIdle /\ TopicIdle /\ PathIdle /\ BoundInit /\ FileIdle /\ MonoIdle /\ HookSideIdle
InitDedup == ExtractIdle /\ TopicIdle /\ PathIdle /\ MergeIdle /\ FileIdle /\ MonoIdle /\ HookSideIdle
InitFile == ExtractIdle /\ TopicIdle /\ PathIdle /\ MergeIdle /\ FileIdle /\ MonoIdle /\ HookSideIdle
InitParse == ExtractIdle /\ TopicIdle /\ PathIdle /\ MergeIdle /\ FileIdle /\ MonoIdle /\ HookSideIdle
InitMono == ExtractIdle /\ TopicIdle /\ PathIdle /\ MergeIdle /\ FileIdle /\ MonoInit /\ HookSideIdle
InitCache == CoreIdle /\ CacheInit /\ HookIdle /\ LogIdle /\ ContextIdle /\ ClassifyIdle /\ CleanIdle /\ ConfirmIdle
InitHook == CoreIdle /\ CacheIdle /\ HookInit /\ LogIdle /\ ContextIdle /\ ClassifyIdle /\ CleanIdle /\ ConfirmIdle
InitLog == CoreIdle /\ CacheIdle /\ HookIdle /\ LogInit /\ ContextIdle /\ ClassifyIdle /\ CleanIdle /\ ConfirmIdle
InitContext == CoreIdle /\ HookSideIdle
InitClassify == CoreIdle /\ HookSideIdle
InitClean == CoreIdle /\ CacheIdle /\ HookIdle /\ LogIdle /\ ContextIdle /\ ClassifyIdle /\ CleanInit /\ ConfirmIdle
InitConfirm == CoreIdle /\ CacheIdle /\ HookIdle /\ LogIdle /\ ContextIdle /\ ClassifyIdle /\ CleanIdle /\ ConfirmInit

SpecExtract == InitExtract /\ [][NextExtract]_vars
SpecTopic == InitTopic /\ [][NextTopic]_vars
SpecPath == InitPath /\ [][NextPath]_vars
SpecMerge == InitMerge /\ [][NextMerge]_vars
SpecRotate == InitRotate /\ [][NextRotate]_vars
SpecBound == InitBound /\ [][NextBound]_vars
SpecDedup == InitDedup /\ [][NextDedup]_vars
SpecFile == InitFile /\ [][NextFile]_vars
SpecParse == InitParse /\ [][NextParse]_vars
SpecMono == InitMono /\ [][NextMono]_vars
SpecCache == InitCache /\ [][NextCache]_vars
SpecHook == InitHook /\ [][NextHook]_vars
SpecLog == InitLog /\ [][NextLog]_vars
SpecContext == InitContext /\ [][NextContext]_vars
SpecClassify == InitClassify /\ [][NextClassify]_vars
SpecClean == InitClean /\ [][NextClean]_vars
SpecConfirm == InitConfirm /\ [][NextConfirm]_vars

(***************************************************************************)
(* Properties of the change extractor                                      *)
(***************************************************************************)

\* The file_path of each record, in order.
PathsOf(records) == [ k \in 1..Len(records) |-> records[k].file_path ]

RECURSIVE ContentItems(_)
\* The content items of the event lines of a log, in log order.
ContentItems(lines) ==
    IF lines = <<>> THEN <<>>
    ELSE (IF Head(lines).kind = "event" THEN Head(lines).items ELSE <<>>)
         \o ContentItems(Tail(lines))

\* A tool_use item of a file-mutating tool whose input has a non-empty file_path.
Qualifies(it) ==
    /\ it.type = "tool_use"
    /\ it.name \in { "Edit", "Write", "MultiEdit", "NotebookEdit" }
    /\ ~it.input_null
    /\ it.file_path \notin { PyNone, "" }

\* The paths of the qualifying items of a log, each at its first occurrence.
FirstOccurrencePaths(lines) ==
    LET items == ContentItems(lines)
        firsts == SelectSeq([ k \in 1..Len(items) |-> << k, items[k] >> ],
                            LAMBDA e : /\ Qualifies(e[2])
                                       /\ \A j \in 1..(e[1] - 1) :
                                             ~(Qualifies(items[j])
                                               /\ items[j].file_path = e[2].file_path))
    IN  [ k \in 1..Len(firsts) |-> firsts[k][2].file_path ]

TranscriptWasRead ==
    extract_pc = "done" /\ Truthy(transcript_path) /\ transcript_file = "readable"

\* C1: for every event log, get_changes returns one record for each distinct
\* path of a qualifying item (Edit, Write, MultiEdit, NotebookEdit with a
\* non-empty file_path), in first-seen order, and none for any other item.
C1_FirstOccurrencePerPath ==
    TranscriptWasRead => PathsOf(changes) = FirstOccurrencePaths(transcript)

\* A line that does not parse as an event record: not JSON, JSON of another
\* shape, a null message, or an item with a null input.
FailsToParse(l) ==
    \/ l.kind # "event"
    \/ \E k \in 1..Len(l.items) : l.items[k].input_null

RemoveAt(seq, i) == [ k \in 1..(Len(seq) - 1) |-> IF k < i THEN seq[k] ELSE seq[k + 1] ]

\* C2: a line that fails to parse is skipped by itself: get_changes returns the
\* records it returns for the same log without that line.
C2_MalformedLineSkipped ==
    TranscriptWasRead =>
        \A i \in 1..Len(transcript) :
            FailsToParse(transcript[i]) =>
                changes = get_changes(transcript_path, transcript_file,
                                      RemoveAt(transcript, i), hook_file_path, disk)

\* C3: with transcript_path absent, naming no file, or naming a file that
\* cannot be read, get_changes returns the single record of
\* tool_input.file_path, or the empty list when there is none.
C3_FallsBackToToolInput ==
    (extract_pc = "done" /\ (~Truthy(transcript_path) \/ transcript_file # "readable"))
        => PathsOf(changes) = (IF hook_file_path \in { PyNone, "" } THEN <<>>
                               ELSE << hook_file_path >>)

\* The qualifying items of a log, in log order.
QualifyingItems(lines) == SelectSeq(ContentItems(lines), Qualifies)

\* The first qualifying item of a log for a path; the log has one.
FirstItemFor(lines, path) ==
    LET items == QualifyingItems(lines)
        first == CHOOSE j \in 1..Len(items) :
                     /\ items[j].file_path = path
                     /\ \A i \in 1..(j - 1) : items[i].file_path # path
    IN  items[first]

\* C26: the action of each record is decided by the first log occurrence of
\* its path: "created" when that item is a Write and the path does not exist
\* when the log is read, "modified" otherwise; no record is ever "deleted".
C26_ActionOfFirstOccurrence ==
    extract_pc = "done" =>
        \A k \in 1..Len(changes) :
            LET path == changes[k].file_path IN
            /\ changes[k].action \in { "created", "modified" }
            /\ (\E j \in 1..Len(QualifyingItems(transcript)) :
                    QualifyingItems(transcript)[j].file_path = path) =>
                  changes[k].action =
                      (IF FirstItemFor(transcript, path).name = "Write" /\ path \notin disk
                       THEN "created" ELSE "modified")

\* The description of a qualifying item, or the exception it ends with.
DescriptionOf(it) == _generate_change_description(it.name, it.file_path, it.payload)

\* C27: whatever the content, old_string, new_string and edits of a qualifying
\* item are, its description is generated without an exception and is not
\* empty, and the pass returns the records of the log: one for each path of a
\* qualifying item, each with a description.
C27_DescriptionNeverRaises ==
    (TranscriptWasRead /\ \A i \in 1..Len(transcript) : ~FailsToParse(transcript[i])) =>
        /\ \A j \in 1..Len(QualifyingItems(transcript)) :
              LET generated == DescriptionOf(QualifyingItems(transcript)[j]) IN
              ~generated.raised /\ generated.value # <<>>
        /\ PathsOf(changes) = FirstOccurrencePaths(transcript)
        /\ \A k \in 1..Len(changes) : changes[k].description # <<>>

(***************************************************************************)
(* Properties of the path reconstruction                                   *)
(***************************************************************************)

\* C4: when some regrouping of the tokens into dash-joined segments is a path
\* that exists on disk, _find_valid_path_dp returns a path that exists on disk;
\* when none is, it returns "/" followed by the tokens joined with "/".
C4_ReturnsExistingRegrouping ==
    path_pc = "done" =>
        IF \E g \in Groupings(parts) : PathExists(g, dirs)
        THEN PathExists(cwd_found, dirs)
        ELSE cwd_found = JoinAll(parts)

(***************************************************************************)
(* Properties of the topic classifier                                      *)
(***************************************************************************)

\* The declared rules with a pattern matching the classified path.
MatchingRules ==
    { k \in 1..Len(topic_patterns) : RuleMatches(topic_patterns[k], change_path) }

\* C5: with non-negative priorities and a path matched by at least one rule,
\* the change is assigned to the matching rule of highest priority, and to the
\* first-declared of them when several share it.
C5_HighestPriorityFirstDeclared ==
    ( /\ topic_pc = "done"
      /\ \A k \in 1..Len(topic_patterns) : PriorityOf(topic_patterns[k]) >= 0
      /\ MatchingRules # {} )
    => LET Beats(k, o) ==
               \/ PriorityOf(topic_patterns[k]) > PriorityOf(topic_patterns[o])
               \/ /\ PriorityOf(topic_patterns[k]) = PriorityOf(topic_patterns[o])
                  /\ k <= o
           winner == CHOOSE k \in MatchingRules : \A o \in MatchingRules : Beats(k, o)
       IN  topic = topic_patterns[winner].name

\* C6: the fallback topic is assigned exactly when no rule matches the path: a
\* change matched by a rule gets the topic of one of its matching rules, with
\* any integer priorities and any topic names.
C6_FallbackIffNoRuleMatches ==
    topic_pc = "done" =>
        /\ (topic = fallback_topic) <=> (MatchingRules = {})
        /\ MatchingRules # {} =>
               topic \in { topic_patterns[k].name : k \in MatchingRules }

\* C7: with the rules testing = ["**/tests/**"] priority 10 and
\* fees = ["**/fee*.py"] priority 8, the relative path tests/fee_test.py matches
\* both rules and is assigned to testing.
C7_TestsFeeTestIsTesting ==
    (topic_pc = "done" /\ topic_patterns = SampleRules /\ change_path = TestsFeeTestPy)
    => /\ MatchingRules = { 1, 2 }
       /\ topic = "testing"

(***************************************************************************)
(* Properties of the knowledge merger                                      *)
(***************************************************************************)

\* The case-insensitive similarity ratio of a and b is at least 0.8 = 4/5.
RatioAtLeastFourFifths(a, b) ==
    LET r == _similarity(a, b) IN 5 * r.num >= 4 * r.den

NonEmptyEntries(list) == SelectSeq(list, LAMBDA item : item # <<>>)

RECURSIVE ListAfter(_, _, _, _)
\* The list after processing items[i..] in order: an item is discarded when its
\* ratio to an entry currently in the list is at least 0.8 (and, unless
\* empty_inserted, when it is empty), and is inserted at index 0 otherwise.
ListAfter(list, items, i, empty_inserted) ==
    IF i > Len(items) THEN list
    ELSE IF \/ ~empty_inserted /\ items[i] = <<>>
            \/ \E k \in 1..Len(list) : RatioAtLeastFourFifths(items[i], list[k])
         THEN ListAfter(list, items, i + 1, empty_inserted)
         ELSE ListAfter(<< items[i] >> \o list, items, i + 1, empty_inserted)

\* C8 as stated: every session item is discarded if and only if its ratio to
\* an entry currently in the list is at least 0.8, and is otherwise inserted at
\* index 0 in front of the pre-existing non-empty entries.
C8_DiscardedIffSimilar ==
    last_call.made =>
        /\ wiki.decisions = ListAfter(NonEmptyEntries(last_call.before.decisions),
                                      last_call.session.decisions_made, 1, TRUE)
        /\ wiki.issues = ListAfter(NonEmptyEntries(last_call.before.issues),
                                   last_call.session.problems_solved, 1, TRUE)

\* C8, amended: an empty session item is always discarded; a non-empty item is
\* discarded if and only if its ratio to an entry currently in the list is at
\* least 0.8, and is otherwise inserted at index 0; the pre-existing non-empty
\* entries stay, in their order, behind the inserted items.
C8_NonEmptyDiscardedIffSimilar ==
    last_call.made =>
        /\ wiki.decisions = ListAfter(NonEmptyEntries(last_call.before.decisions),
                                      last_call.session.decisions_made, 1, FALSE)
        /\ wiki.issues = ListAfter(NonEmptyEntries(last_call.before.issues),
                                   last_call.session.problems_solved, 1, FALSE)

\* A merge that discards an empty decision and inserts the next one, discards
\* a problem at ratio exactly 0.8 and inserts one at ratio 4/6.
C8_Witness ==
    /\ last_call.made
    /\ last_call.before.decisions = <<>>
    /\ last_call.session.decisions_made = << <<>>, StrAb >>
    /\ wiki.decisions = << StrAb >>
    /\ last_call.before.issues = << StrAb >>
    /\ last_call.session.problems_solved = << StrABC, StrAbcd >>
    /\ wiki.issues = << StrAbcd, StrAb >>

\* C9: merging the same SessionContext twice in succession leaves decisions
\* and issues after the second merge as they were after the first.
C9_SecondMergeChangesNothing ==
    last_call.repeat =>
        /\ wiki.decisions = last_call.before.decisions
        /\ wiki.issues = last_call.before.issues

\* The second of two merges of a session whose first merge inserted a decision
\* and a problem.
C9_Witness ==
    /\ last_call.repeat
    /\ wiki0.decisions = <<>>
    /\ wiki0.issues = << StrAb >>
    /\ last_call.session.decisions_made = << StrAb, StrABC >>
    /\ last_call.session.problems_solved = << StrABC, StrAbcd >>
    /\ wiki.decisions = << StrAb >>
    /\ wiki.issues = << StrAbcd, StrAb >>

\* C10: from an empty recent-work list, after N merges with max_recent = 5,
\* each with a non-empty summary, recent_work has length min(N, 5), its first
\* element is the entry of the latest merge, and it holds the latest entries,
\* most recent first.
C10_KeepsLatestFive ==
    (wiki0.recent_work = <<>> /\ summaries_only) =>
        LET N == Len(entries_added) IN
        /\ Len(wiki.recent_work) = (IF N < 5 THEN N ELSE 5)
        /\ N > 0 => wiki.recent_work[1] =
                        Entry(last_call.date, last_call.session.summary)
        /\ \A k \in 1..Len(wiki.recent_work) :
               wiki.recent_work[k] = entries_added[N - k + 1]

\* Six merges from an empty list: five entries are left, the first one added
\* is gone, and the entries differ.
C10_Witness ==
    /\ wiki0.recent_work = <<>>
    /\ summaries_only
    /\ Len(entries_added) = 6
    /\ Len(wiki.recent_work) = 5
    /\ entries_added[1] # entries_added[2]
    /\ wiki.recent_work[5] = entries_added[2]
    /\ wiki.recent_work[1] = entries_added[6]
    /\ wiki.recent_work[1] # wiki.recent_work[2]

\* The first n entries of a list (none when n <= 0).
FirstEntries(list, n) ==
    SubSeq(list, 1, IF n <= 0 THEN 0 ELSE IF Len(list) < n THEN Len(list) ELSE n)

\* The list formed by the new date-stamped entry followed by the previous
\* recent_work of the last call.
EntryThenPrevious ==
    << Entry(last_call.date, last_call.session.summary) >> \o last_call.before.recent_work

\* C11 as stated: after every merge_session call, for any knowledge base and
\* any session, recent_work is the first max_recent entries of the new entry
\* followed by the previous recent_work.
C11_AlwaysPrependedAndTruncated ==
    last_call.made =>
        wiki.recent_work = FirstEntries(EntryThenPrevious, last_call.max_recent)

\* C11, amended: after a merge_session call with a non-empty summary and a
\* positive max_recent, recent_work is the first max_recent entries of the new
\* entry followed by the previous recent_work; a call with an empty summary,
\* or one rejected for its max_recent, leaves recent_work as it was, longer
\* than max_recent if it was so before.
C11_PrependedWhenSummarised ==
    last_call.made =>
        IF last_call.session.summary # "" /\ last_call.max_recent > 0
        THEN /\ ~last_call.raised
             /\ wiki.recent_work = FirstEntries(EntryThenPrevious, last_call.max_recent)
        ELSE wiki.recent_work = last_call.before.recent_work

\* A merge with max_recent = 2 into a list of six stored entries: the new entry
\* and the first stored one are left.
C11_Witness ==
    /\ last_call.made
    /\ last_call.max_recent = 2
    /\ last_call.session.summary = "s1"
    /\ last_call.before.recent_work = StoredEntries
    /\ wiki.recent_work = << Entry(last_call.date, "s1"), Entry(0, "o1") >>

\* C12: every merge_session call with max_recent <= 0 is rejected with an
\* error, the summary empty or not.
C12_NonPositiveBoundRejected ==
    (last_call.made /\ last_call.max_recent <= 0) => last_call.raised

\* C13: a threshold outside 0.0 to 1.0 given to the deduplication step is
\* rejected with an error and not applied to the lists.
C13_ThresholdOutOfRangeRejected ==
    ( /\ dedup_call.made
      /\ \/ dedup_call.threshold.num < 0
         \/ dedup_call.threshold.num > dedup_call.threshold.den )
    => dedup_call.raised

\* C14: merge_session leaves architecture, patterns and key_symbols as they
\* were, for every knowledge base and every session.
C14_OtherSectionsUntouched ==
    last_call.made =>
        /\ wiki.architecture = last_call.before.architecture
        /\ wiki.patterns = last_call.before.patterns
        /\ wiki.key_symbols = last_call.before.key_symbols

\* A merge that changed decisions, issues and recent_work of a knowledge base
\* holding architecture, patterns and key symbols.
C14_Witness ==
    /\ last_call.made
    /\ wiki.architecture = "arch"
    /\ wiki.patterns = << StrAb >>
    /\ wiki.key_symbols = << StrAbcd >>
    /\ wiki.decisions # last_call.before.decisions
    /\ wiki.issues # last_call.before.issues
    /\ wiki.recent_work # last_call.before.recent_work

(***************************************************************************)
(* Properties of the knowledge file                                        *)
(***************************************************************************)

ListFields == { "decisions", "patterns", "key_symbols", "issues", "recent_work" }

\* C15: parsing the text write_wiki produced recovers every list field,
\* decisions, patterns, key_symbols, issues and recent_work, with the same
\* items in the same order.
C15_WriteThenParseRecoversLists ==
    (file_pc = "parsed" /\ written.done) =>
        \A f \in ListFields : parsed_wiki[f] = written.wiki[f]

\* The bullet lines between the first depth-2 header line '## <name>' and the
\* next depth-2 header line or the end of the text, in order.
BulletsUnderHeader(content, name) ==
    LET heads == { i \in 1..Len(content) : content[i] = Heading2(name) }
    IN  IF heads = {} THEN <<>>
        ELSE LET h == CHOOSE i \in heads : \A o \in heads : i <= o
                 later == { j \in (h + 1)..Len(content) : content[j].prefix = "## " }
                 e == IF later = {} THEN Len(content) + 1
                      ELSE CHOOSE j \in later : \A o \in later : j <= o
                 bullets == SelectSeq(SubSeq(content, h + 1, e - 1),
                                      LAMBDA l : l.prefix \in { "- ", "* " })
             IN  [ k \in 1..Len(bullets) |-> Strip(bullets[k].text) ]

\* C16: the items parse returns for a list section are the bullet lines between
\* the section's depth-2 header and the next depth-2 header or the end of the
\* text; a '###' heading neither starts nor ends a section, and no bullet is
\* attributed to a section other than the one whose header precedes it.
C16_SectionIsBetweenDepthTwoHeaders ==
    file_pc = "parsed" =>
        /\ parsed_wiki.decisions = BulletsUnderHeader(context_md, "Decisions")
        /\ parsed_wiki.patterns = BulletsUnderHeader(context_md, "Patterns")
        /\ parsed_wiki.key_symbols = BulletsUnderHeader(context_md, "Key Symbols")
        /\ parsed_wiki.issues = BulletsUnderHeader(context_md, "Issues")
        /\ parsed_wiki.recent_work = BulletsUnderHeader(context_md, "Recent Work")

(***************************************************************************)
(* Monorepo detection                                                      *)
(***************************************************************************)

\* The i-th directory on the chain from the working directory toward "/".
ChainDir(cwd, i) == SubSeq(cwd, 1, Len(cwd) - (i - 1))

\* The directories the walk can reach: the working directory and its nearest
\* ancestors, MAX_WALK_LEVELS directories at most.
WalkRange(cwd) ==
    { ChainDir(cwd, i) : i \in 1..(IF Len(cwd) + 1 < MAX_WALK_LEVELS
                                   THEN Len(cwd) + 1 ELSE MAX_WALK_LEVELS) }

Matches(dir) == _check_all_markers(repo_files, dir, mono_cwd).found

StandardTypes == { STANDARD_MARKERS[i][2] : i \in 1..Len(STANDARD_MARKERS) }

\* C18: whenever a directory within the walk range carries a standard marker
\* under which the working directory is a valid workspace, detection returns a
\* result and its kind is not "subgraphs".
C18_StandardBeatsCustom ==
    mono_pc = "done" =>
        \A dir \in WalkRange(mono_cwd) :
            _check_standard_markers(repo_files, dir, mono_cwd).found =>
                mono_result.found /\ mono_result.type # "subgraphs"

\* Some marker of any kind is present in the directory.
HasMarker(dir) ==
    \/ \E i \in 1..Len(STANDARD_MARKERS) : FileExists(repo_files, dir, STANDARD_MARKERS[i][1])
    \/ RepoFile(dir, "package.json", "workspaces") \in repo_files
    \/ RepoFile(dir, "subgraphs", "nested") \in repo_files

\* The path from dir to the working directory is empty or starts outside the
\* allow-list.
NotAWorkspaceUnder(dir) ==
    \/ Len(dir) = Len(mono_cwd)
    \/ mono_cwd[Len(dir) + 1] \notin WORKSPACE_DIRS

UnderRoot == SubSeq(mono_cwd, Len(mono_result.root) + 1, Len(mono_cwd))

\* C20 as stated: every result has the first two segments under the root as
\* workspace_relative and the second of them as workspace_name.
C20_FirstTwoSegments ==
    (mono_pc = "done" /\ mono_result.found) =>
        /\ Len(UnderRoot) >= 2
        /\ mono_result.workspace_relative = << UnderRoot[1], UnderRoot[2] >>
        /\ mono_result.workspace_name = UnderRoot[2]

\* C20: with two or more segments under the root, workspace_relative is the
\* first two and workspace_name the second, however deep the working
\* directory; with exactly one segment both are that segment.  Either way the
\* key starts with the parent directory, so that same-named workspaces under
\* different parents differ.
C20_FirstTwoSegmentsOrTheOnlyOne ==
    (mono_pc = "done" /\ mono_result.found) =>
        /\ Len(UnderRoot) >= 1
        /\ mono_result.workspace_relative[1] = UnderRoot[1]
        /\ Len(UnderRoot) >= 2 =>
              /\ mono_result.workspace_relative = << UnderRoot[1], UnderRoot[2] >>
              /\ mono_result.workspace_name = UnderRoot[2]
        /\ Len(UnderRoot) = 1 =>
              /\ mono_result.workspace_relative = << UnderRoot[1] >>
              /\ mono_result.workspace_name = UnderRoot[1]

\* A result for a working directory three or more segments below the root.
C20_Witness ==
    /\ mono_pc = "done"
    /\ mono_result.found
    /\ Len(UnderRoot) >= 3
    /\ mono_result.workspace_name = UnderRoot[2]

(***************************************************************************)
(* Properties of the detection cache                                       *)
(***************************************************************************)

\* What an uncached detection returns for the call's directory on the
\* filesystem of the time of the call.
Uncached(call) == detect_monorepo(call.fs, Resolve(call.cwd)).result

FilesystemStable == \A i, j \in 1..Len(cache_calls) : cache_calls[i].fs = cache_calls[j].fs

ReachesPipeline(run) ==
    /\ run.input = "object"
    /\ run.fail_at # "debug_file"
    /\ ~run.excluded
    /\ run.n_changes >= run.threshold

\* Some step of the run raises an exception that reaches main's handler.
StepRaises(run) ==
    \/ run.input # "object"
    \/ run.fail_at = "debug_file"
    \/ ReachesPipeline(run) /\ PipelineOutcome(run).error # ""

\* C22: every run of main writes exactly one JSON object to standard output,
\* the empty object on normal completion (excluded path and too few changes
\* included) and an object with a systemMessage field when a step raised, and
\* ends with exit status 0 and no exception on its way; before the end it has
\* written at most one object.
C22_OneObjectAndExitZero ==
    /\ Len(stdout) <= 1
    /\ exit_status \in { -1, 0 }
    /\ hook_pc = "exited" =>
          /\ Len(stdout) = 1
          /\ exit_status = 0
          /\ pending = ""
          /\ stdout[1] = EmptyObject \/ stdout[1].kind = "systemMessage"
          /\ stdout[1].kind = "systemMessage" <=> StepRaises(hook_run)

\* A run whose pipeline raised ended with a systemMessage object and status 0.
C22_Witness ==
    /\ hook_pc = "exited"
    /\ ReachesPipeline(hook_run)
    /\ stdout = << SystemMessage("TypeError") >>
    /\ exit_status = 0

\* C23: a run on a path that is not excluded, with at least
\* min_changes_threshold changes and no failing collaborator, writes one
\* session log and then emits the empty object.
C23_WritesLogThenEmptyObject ==
    (hook_pc = "exited" /\ ReachesPipeline(hook_run) /\ hook_run.fail_at = "") =>
        /\ logs_written = 1
        /\ stdout = << EmptyObject >>

(***************************************************************************)
(* Properties of history/                                                  *)
(***************************************************************************)

\* C24: history/ is append-only with one immutable log file per session: after
\* N sessions it holds N files, and the file of every session still has the
\* content that session wrote.
C24_OneImmutableLogPerSession ==
    /\ Cardinality(history_dir) = Len(sessions)
    /\ \A k \in 1..Len(sessions) :
          [ name |-> sessions[k].name, content |-> sessions[k].content ] \in history_dir

(***************************************************************************)
(* Properties of the session context                                       *)
(***************************************************************************)

\* C25: when the summarization CLI is unavailable, exits non-zero, raises or
\* times out, extract_session_context does not raise and returns the built-in
\* fallback context: the summary "Modified N file(s)" with the sorted
\* extensions, and empty goal, decisions, problems and future work.
C25_FallbackContextOnFailure ==
    (context_call.made /\ context_call.cli # "ok") =>
        /\ ~context_call.raised
        /\ context_call.ctx = _fallback_context(context_call.changes)

(***************************************************************************)
(* Properties of the path classifier                                       *)
(***************************************************************************)

RECURSIVE SegmentsOf(_, _, _)
\* The segments of a path, each the pieces between two slashes; a leading ~
\* stands for the segments of the home directory.
SegmentsOf(p, current, acc) ==
    IF p = <<>> THEN (IF current = <<>> THEN acc ELSE Append(acc, current))
    ELSE IF Head(p) = "/"
    THEN SegmentsOf(Tail(p), <<>>, IF current = <<>> THEN acc ELSE Append(acc, current))
    ELSE IF Head(p) = "~" THEN SegmentsOf(HomeDir \o Tail(p), current, acc)
    ELSE SegmentsOf(Tail(p), Append(current, Head(p)), acc)

\* cwd is the directory dir or lies beneath it.
AtOrBeneath(cwd, dir) ==
    LET c == SegmentsOf(cwd, <<>>, <<>>)
        d == SegmentsOf(dir, <<>>, <<>>)
    IN  Len(d) <= Len(c) /\ SubSeq(c, 1, Len(d)) = d

BeneathAny(cwd, directories) ==
    \E k \in 1..Len(directories) : AtOrBeneath(cwd, directories[k])

\* C28: classify returns 'work' exactly when cwd is or lies beneath a
\* configured work directory, given with or without a trailing slash, and
\* 'personal' otherwise, so that a sibling directory that only shares a
\* character prefix with a work directory is 'personal'; is_excluded follows
\* the same rule for the excluded paths.
C28_WorkExactlyWhenBeneath ==
    classify_call.made =>
        IF classify_call.operation = "classify"
        THEN classify_call.classification =
                 (IF BeneathAny(classify_call.cwd, classify_call.patterns)
                  THEN "work" ELSE "personal")
        ELSE classify_call.excluded =
                 BeneathAny(classify_call.cwd, classify_call.patterns)

(***************************************************************************)
(* Properties of the legacy cleanup                                        *)
(***************************************************************************)

\* A top-level file named *.md other than context.md.
LegacyTopicFile(f) == f.dir = "" /\ f.ext = ".md" /\ f # ContextMd

\* C29: across any sequence of cleanup calls interleaved with file creations,
\* the only files ever deleted are top-level *.md files other than context.md
\* (never context.md, never a file under plans/ or history/); deletions happen
\* only in the first call that completes on an existing directory, and once
\* .migrated exists no call deletes anything.
C29_DeletesLegacyFilesOnce ==
    \A i \in 1..Len(cleanup_log) :
        LET call == cleanup_log[i] IN
        /\ \A f \in call.deleted : LegacyTopicFile(f)
        /\ call.marker_before => call.deleted = {}
        /\ call.deleted # {} =>
              /\ call.existed
              /\ \A j \in 1..(i - 1) :
                    ~cleanup_log[j].existed \/ cleanup_log[j].marker_before

\* A first call deleted legacy files, and a later call found new legacy files
\* beside the marker and left them, with context.md, a plan and a session log
\* still in place.
C29_Witness ==
    /\ Len(cleanup_log) >= 2
    /\ cleanup_log[1].deleted # {}
    /\ cleanup_log[2].marker_before
    /\ cleanup_log[2].legacy_before
    /\ cleanup_log[2].deleted = {}
    /\ { ContextMd, File("plans", "plan", ".md"), File("history", "log", ".md"),
         File("", "auth", ".md") } \subseteq dir_files

(***************************************************************************)
(* Properties of the monorepo confirmation                                 *)
(***************************************************************************)

\* The answers that read '', 'y' or 'yes' once trimmed and lower-cased.
Accepting ==
    { Answer("line", t) :
        t \in { <<>>, << " " >>, << "y" >>, << "Y" >>, << "y", "e", "s" >>,
                << " ", "Y", "e", "S", " " >>, << "\t", "y" >> } }

\* The root was in monorepo_confirmed_projects when call i began.
ListedBefore(i) ==
    \E k \in 1..Len(confirm_log[i].projects_before) :
        confirm_log[i].projects_before[k] = confirm_log[i].root

\* monorepo_confirmed_projects when call i returned.
ProjectsAfter(i) ==
    IF i = Len(confirm_log) THEN confirmed_projects
    ELSE confirm_log[i + 1].projects_before

\* C30: a call for a root already in monorepo_confirmed_projects returns true
\* without reading input; any other call prompts and returns true exactly when
\* the trimmed, lower-cased answer is '', 'y' or 'yes', and then records the
\* root, so that later calls for it return true without prompting; a declined
\* answer, end of input or an interrupt returns false and records nothing, so
\* that the next call for the root prompts again.
C30_ConfirmationRemembered ==
    \A i \in 1..Len(confirm_log) :
        LET call == confirm_log[i] IN
        /\ ListedBefore(i) =>
              /\ call.confirmed /\ ~call.prompted
              /\ ProjectsAfter(i) = call.projects_before
        /\ ~ListedBefore(i) =>
              /\ call.prompted
              /\ call.confirmed <=> call.answer \in Accepting
              /\ call.confirmed =>
                    \E k \in 1..Len(ProjectsAfter(i)) : ProjectsAfter(i)[k] = call.root
              /\ ~call.confirmed => ProjectsAfter(i) = call.projects_before
        /\ \A j \in (i + 1)..Len(confirm_log) :
              (call.confirmed /\ confirm_log[j].root = call.root) =>
                  confirm_log[j].confirmed /\ ~confirm_log[j].prompted
        /\ (~call.confirmed /\ i < Len(confirm_log)
                /\ confirm_log[i + 1].root = call.root) =>
              confirm_log[i + 1].prompted

\* A declined call for a root was followed by a prompt that was accepted with
\* ' YeS ', after which the next call for the root returned true unprompted.
C30_Witness ==
    /\ Len(confirm_log) = 3
    /\ \A i \in 1..3 : confirm_log[i].root = "/r2"
    /\ confirm_log[1].prompted /\ ~confirm_log[1].confirmed
    /\ confirm_log[2].prompted /\ confirm_log[2].confirmed
    /\ confirm_log[2].answer = Answer("line", << " ", "Y", "e", "S", " " >>)
    /\ ~confirm_log[3].prompted /\ confirm_log[3].confirmed

====
